---- MODULE Spec2Model ----
(***************************************************************************)
(* Model of the PQFE hybrid envelope library (src/src/*.py).               *)
(*                                                                         *)
(* Byte strings produced by the external providers (liboqs KEM and         *)
(* signature objects, the `cryptography` AEAD ciphers, os.urandom,         *)
(* hashlib.sha3_384) are symbolic: a KEM ciphertext names the key and the  *)
(* secret it encapsulates, an AEAD blob is a sequence of cells that name   *)
(* the key, nonce and plaintext they were computed from, a digest names    *)
(* its pre-image.  The providers are ideal: a tag verifies only for the    *)
(* exact (key, nonce, ciphertext) it was computed for, decapsulating with  *)
(* a non-matching key or variant gives either an error or a secret no      *)
(* encapsulation ever returned.  Everything between the provider calls is  *)
(* translated from the Python source.                                      *)
(***************************************************************************)
EXTENDS Integers, Sequences, FiniteSets, TLC

\* ------------------------------------------------------------------ bounds
MaxLen == 1
NumKeys == 2

\* ------------------------------------------------------------ basic values
Bytes == {0, 1}
Payloads == UNION {[1..n -> Bytes] : n \in 0..MaxLen}

Min(a, b) == IF a < b THEN a ELSE b

\* One root encryption and one re-encryption per recipient keypair.
MaxEncaps == NumKeys + 1

\* Python slices data[:n] and data[n:]
Take(s, n) == SubSeq(s, 1, Min(n, Len(s)))
Drop(s, n) == SubSeq(s, Min(n, Len(s)) + 1, Len(s))

Count(s, e) == Cardinality({i \in 1..Len(s) : s[i] = e})
FirstIndex(s, e) == IF \E i \in 1..Len(s) : s[i] = e
                    THEN CHOOSE i \in 1..Len(s) : s[i] = e /\ \A j \in 1..(i - 1) : s[j] # e
                    ELSE 0
LastIndex(s, e) == IF \E i \in 1..Len(s) : s[i] = e
                   THEN CHOOSE i \in 1..Len(s) : s[i] = e /\ \A j \in (i + 1)..Len(s) : s[j] # e
                   ELSE 0

\* --------------------------------------------------------------- key material
\* A key of a provider keypair: the variant it was generated under, the
\* keypair's identity, and which half it is.  form is "ok" for a byte string
\* as generate_keypair returns it.
KYBER_SUPPORTED_VARIANTS == {"Kyber512", "Kyber768", "Kyber1024"}
DILITHIUM_SUPPORTED_VARIANTS == {"Dilithium2", "Dilithium3", "Dilithium5"}

PublicKey(v, i) == [variant |-> v, id |-> i, part |-> "public", form |-> "ok"]
SecretKey(v, i) == [variant |-> v, id |-> i, part |-> "secret", form |-> "ok"]
NoKey == [variant |-> "none", id |-> 0, part |-> "none", form |-> "none"]

KeyIds == 1..NumKeys
KemPublicKeys == {PublicKey(v, i) : v \in KYBER_SUPPORTED_VARIANTS, i \in KeyIds}
KemSecretKeys == {SecretKey(v, i) : v \in KYBER_SUPPORTED_VARIANTS, i \in KeyIds}
SigPublicKeys == {PublicKey(v, i) : v \in DILITHIUM_SUPPORTED_VARIANTS, i \in KeyIds}
SigSecretKeys == {SecretKey(v, i) : v \in DILITHIUM_SUPPORTED_VARIANTS, i \in KeyIds}

Matches(pub, priv) == /\ pub.part = "public" /\ priv.part = "secret"
                      /\ pub.form = "ok" /\ priv.form = "ok"
                      /\ pub.variant = priv.variant /\ pub.id = priv.id

\* A symmetric key: the identity of its first 32 bytes and its length.
SymKey(i, n) == [id |-> i, len |-> n]
NoSecret == SymKey(0, 0)
\* key[:32]
First32(key) == [id |-> key.id, len |-> Min(key.len, 32)]

\* ----------------------------------------------------------- KEM provider
NoCiphertext == [variant |-> "none", kid |-> 0, sid |-> 0]
ProviderOutcomes == {"ValueError", "garbage"}

\* The mechanisms the provider has: the three the library names, and others
KemMechanisms == KYBER_SUPPORTED_VARIANTS \cup {"BIKE-L1"}

\* oqs.KeyEncapsulation(variant).encap_secret(public_key): a fresh secret
\* (numbered fresh) and the ciphertext that carries it to the holder of the
\* matching secret key.  A public key of another variant has the wrong length:
\* the provider raises or encapsulates to a key nobody holds (onMismatch).
\* A name the provider does not know is refused by KeyEncapsulation().
encap_secret(variant, public_key, fresh, onMismatch) ==
    IF variant \notin KemMechanisms
    THEN [exc |-> "MechanismNotSupportedError", ciphertext |-> NoCiphertext,
          shared_secret |-> NoSecret]
    ELSE IF public_key.form = "ok" /\ public_key.part = "public" /\ public_key.variant = variant
    THEN [exc |-> "none",
          ciphertext |-> [variant |-> variant, kid |-> public_key.id, sid |-> fresh],
          shared_secret |-> SymKey(fresh, 32)]
    ELSE IF onMismatch = "garbage"
    THEN [exc |-> "none",
          ciphertext |-> [variant |-> variant, kid |-> 0, sid |-> fresh],
          shared_secret |-> SymKey(fresh, 32)]
    ELSE [exc |-> onMismatch, ciphertext |-> NoCiphertext, shared_secret |-> NoSecret]

\* oqs.KeyEncapsulation(variant, private_key).decap_secret(ciphertext): the
\* encapsulated secret when key, ciphertext and variant all match; otherwise
\* an explicit error or (implicit rejection, zero-padded buffers) a secret
\* that no encapsulation returned (id 0).
decap_secret(variant, private_key, ciphertext, onMismatch) ==
    IF /\ private_key.form = "ok" /\ private_key.part = "secret"
       /\ private_key.variant = variant /\ ciphertext.variant = variant
       /\ ciphertext.kid = private_key.id
    THEN [exc |-> "none", shared_secret |-> SymKey(ciphertext.sid, 32)]
    ELSE IF onMismatch = "garbage"
    THEN [exc |-> "none", shared_secret |-> SymKey(0, 32)]
    ELSE [exc |-> onMismatch, shared_secret |-> NoSecret]

\* ---------------------------------------------------------- AEAD provider
\* One byte of a blob.  kind: "nonce", "ct" or "tag"; alg/key/nonce: what it
\* was computed under; idx: its position in its part; pt: the plaintext byte
\* (ct) or the whole plaintext (tag) it depends on; flip: a bit of it was
\* changed after it was produced.
Cell(kind, alg, key, nonce, idx, pt) ==
    [kind |-> kind, alg |-> alg, key |-> key, nonce |-> nonce, idx |-> idx, pt |-> pt,
     flip |-> FALSE]

\* os.urandom(12) as the n-th draw
urandom12(n) == [i \in 1..12 |-> Cell("nonce", "none", 0, n, i, <<>>)]

\* AESGCM(key).encrypt(nonce, data, None) / ChaCha20Poly1305(key).encrypt(...):
\* len(data) ciphertext bytes followed by a 16-byte tag.
aead_encrypt(alg, key, nonce, data) ==
    [i \in 1..(Len(data) + 16) |->
        IF i <= Len(data)
        THEN Cell("ct", alg, key.id, nonce[1].nonce, i, <<data[i]>>)
        ELSE Cell("tag", alg, key.id, nonce[1].nonce, i - Len(data), data)]

\* The plaintext a ciphertext-and-tag claims to carry (read off its last cell).
ClaimedPlaintext(ct) == ct[Len(ct)].pt

\* AESGCM(key).decrypt(nonce, ct, None) / ChaCha20Poly1305(key).decrypt(...):
\* ValueError for a nonce length the cipher refuses (AES-GCM: under 8 bytes,
\* ChaCha20-Poly1305: other than 12), InvalidTag for fewer than 16 bytes or a
\* tag that does not verify, the plaintext otherwise.
aead_decrypt(alg, key, nonce, ct) ==
    IF (alg = "AES256GCM" /\ Len(nonce) < 8) \/ (alg = "ChaCha20Poly1305" /\ Len(nonce) # 12)
    THEN [exc |-> "ValueError", out |-> <<>>]
    ELSE IF Len(ct) < 16
    THEN [exc |-> "InvalidTag", out |-> <<>>]
    ELSE IF /\ Len(nonce) = 12
            /\ nonce = urandom12(nonce[1].nonce)
            /\ ct[Len(ct)].kind = "tag"
            /\ ct = aead_encrypt(alg, key, nonce, ClaimedPlaintext(ct))
    THEN [exc |-> "none", out |-> ClaimedPlaintext(ct)]
    ELSE [exc |-> "InvalidTag", out |-> <<>>]

\* A single bit of byte i changed.
FlipBit(blob, i) == [blob EXCEPT ![i].flip = ~blob[i].flip]

\* ------------------------------------------------------- src/src/symmetric.py
\* Results of a cipher call: the exception raised ("none": returned), the
\* bytes returned, the provider calls made.
\* (mutant) the nonce appended to the ciphertext instead of prepended
AES256GCMCipher_encrypt_nonce_last(data, key, draw) ==
    IF key.len < 32
    THEN [exc |-> "ValueError", out |-> <<>>, calls |-> <<>>]
    ELSE LET nonce == urandom12(draw)
             ciphertext == aead_encrypt("AES256GCM", First32(key), nonce, data)
         IN [exc |-> "none", out |-> ciphertext \o nonce,
             calls |-> <<"urandom", "AESGCM", "aead_encrypt">>]

AES256GCMCipher_encrypt(data, key, draw) ==
    IF key.len < 32
    THEN [exc |-> "ValueError", out |-> <<>>, calls |-> <<>>]
    ELSE LET nonce == urandom12(draw)
             ciphertext == aead_encrypt("AES256GCM", First32(key), nonce, data)
         IN [exc |-> "none", out |-> nonce \o ciphertext,
             calls |-> <<"urandom", "AESGCM", "aead_encrypt">>]

\* (mutant) the nonce remembered from encryption instead of read from the
\* first 12 bytes of the blob
AES256GCMCipher_decrypt_stored_nonce(data, key) ==
    IF key.len < 32
    THEN [exc |-> "ValueError", out |-> <<>>, calls |-> <<>>]
    ELSE LET ct == Drop(data, 12)
             nonce == urandom12(IF Len(ct) > 0 THEN ct[1].nonce ELSE 0)
             r == aead_decrypt("AES256GCM", First32(key), nonce, ct)
         IN [exc |-> r.exc, out |-> r.out, calls |-> <<"AESGCM", "aead_decrypt">>]

AES256GCMCipher_decrypt(data, key) ==
    IF key.len < 32
    THEN [exc |-> "ValueError", out |-> <<>>, calls |-> <<>>]
    ELSE LET nonce == Take(data, 12)
             ct == Drop(data, 12)
             r == aead_decrypt("AES256GCM", First32(key), nonce, ct)
         IN [exc |-> r.exc, out |-> r.out, calls |-> <<"AESGCM", "aead_decrypt">>]

\* (mutant) no check of the key's length: the provider's cipher object refuses
\* the key, after the nonce is drawn
ChaCha20Poly1305Cipher_encrypt_unchecked(data, key, draw) ==
    LET nonce == urandom12(draw)
        ciphertext == aead_encrypt("ChaCha20Poly1305", First32(key), nonce, data)
    IN IF key.len < 32
       THEN [exc |-> "ValueError", out |-> <<>>, calls |-> <<"urandom", "ChaCha20Poly1305">>]
       ELSE [exc |-> "none", out |-> nonce \o ciphertext,
             calls |-> <<"urandom", "ChaCha20Poly1305", "aead_encrypt">>]

ChaCha20Poly1305Cipher_encrypt(data, key, draw) ==
    IF key.len < 32
    THEN [exc |-> "ValueError", out |-> <<>>, calls |-> <<>>]
    ELSE LET nonce == urandom12(draw)
             ciphertext == aead_encrypt("ChaCha20Poly1305", First32(key), nonce, data)
         IN [exc |-> "none", out |-> nonce \o ciphertext,
             calls |-> <<"urandom", "ChaCha20Poly1305", "aead_encrypt">>]

\* (mutant) the whole key handed to the provider instead of its first 32 bytes
ChaCha20Poly1305Cipher_decrypt_whole_key(data, key) ==
    IF key.len < 32
    THEN [exc |-> "ValueError", out |-> <<>>, calls |-> <<>>]
    ELSE LET nonce == Take(data, 12)
             ct == Drop(data, 12)
             r == aead_decrypt("ChaCha20Poly1305", key, nonce, ct)
         IN IF key.len # 32
            THEN [exc |-> "ValueError", out |-> <<>>, calls |-> <<"ChaCha20Poly1305">>]
            ELSE [exc |-> r.exc, out |-> r.out,
                  calls |-> <<"ChaCha20Poly1305", "aead_decrypt">>]

ChaCha20Poly1305Cipher_decrypt(data, key) ==
    IF key.len < 32
    THEN [exc |-> "ValueError", out |-> <<>>, calls |-> <<>>]
    ELSE LET nonce == Take(data, 12)
             ct == Drop(data, 12)
             r == aead_decrypt("ChaCha20Poly1305", First32(key), nonce, ct)
         IN [exc |-> r.exc, out |-> r.out, calls |-> <<"ChaCha20Poly1305", "aead_decrypt">>]

\* Method dispatch on the cipher object's class.
cipher_encrypt(cipher, data, key, draw) ==
    IF cipher = "AES256GCMCipher"
    THEN AES256GCMCipher_encrypt(data, key, draw)
    ELSE ChaCha20Poly1305Cipher_encrypt(data, key, draw)

cipher_decrypt(cipher, data, key) ==
    IF cipher = "AES256GCMCipher"
    THEN AES256GCMCipher_decrypt(data, key)
    ELSE ChaCha20Poly1305Cipher_decrypt(data, key)

\* str.upper() on the cipher names the model passes around
CipherNames == {"AES256GCM", "ChaCha20Poly1305", "aes256gcm", "chacha20poly1305",
                "AES128GCM", "InvalidCipher", ""}
Upper(name) ==
    CASE name = "AES256GCM" -> "AES256GCM"
      [] name = "aes256gcm" -> "AES256GCM"
      [] name = "ChaCha20Poly1305" -> "CHACHA20POLY1305"
      [] name = "chacha20poly1305" -> "CHACHA20POLY1305"
      [] name = "InvalidCipher" -> "INVALIDCIPHER"
      [] name = "" -> ""
      [] OTHER -> "AES128GCM"

\* (mutant) the name compared as it is written
get_cipher_instance_exact(cipher_name) ==
    IF cipher_name = "AES256GCM"
    THEN [exc |-> "none", cipher |-> "AES256GCMCipher"]
    ELSE IF cipher_name = "ChaCha20Poly1305"
    THEN [exc |-> "none", cipher |-> "ChaCha20Poly1305Cipher"]
    ELSE [exc |-> "ValueError", cipher |-> "none"]

get_cipher_instance(cipher_name) ==
    IF Upper(cipher_name) = "AES256GCM"
    THEN [exc |-> "none", cipher |-> "AES256GCMCipher"]
    ELSE IF Upper(cipher_name) = "CHACHA20POLY1305"
    THEN [exc |-> "none", cipher |-> "ChaCha20Poly1305Cipher"]
    ELSE [exc |-> "ValueError", cipher |-> "none"]

\* ----------------------------------------------- src/src/kyber_encryption.py
NoHandle == [variant |-> "none", cipher_name |-> "none", cipher |-> "none",
             dilithium_variant |-> "none"]

KyberEncryption_init(variant, cipher) ==
    IF variant \notin KYBER_SUPPORTED_VARIANTS
    THEN [exc |-> "ValueError", self |-> NoHandle]
    ELSE LET c == get_cipher_instance(cipher)
         IN IF c.exc # "none"
            THEN [exc |-> c.exc, self |-> NoHandle]
            ELSE [exc |-> "none",
                  self |-> [variant |-> variant, cipher_name |-> cipher,
                            cipher |-> c.cipher, dilithium_variant |-> "none"]]

\* What a file operation hands back: the exception it ended with or the
\* fields of its result, the file system it leaves, and the calls it made
\* attr: the value the call leaves in self._encrypted_content (set: it assigns one)
NoAttr == [set |-> FALSE, content |-> <<>>]

NoFileResult == [exc |-> "none", encrypted_data |-> <<>>, ciphertext |-> NoCiphertext,
                 decrypted_data |-> <<>>, path |-> "none", signature |-> <<>>,
                 verified |-> FALSE, files |-> <<>>, calls |-> <<>>, attr |-> NoAttr]

Raised(exc, files, calls) == [NoFileResult EXCEPT !.exc = exc, !.files = files, !.calls = calls]

\* KyberEncryption.encrypt_file(self, file_path, public_key, output_file=None,
\* return_as_data=False), called with the positional arguments args.  More
\* than four do not bind (TypeError).  The body opens the file and then asks
\* for self.kyber, an attribute no method of the class assigns
\* (AttributeError), so no statement after it runs.
\* (mutant) encrypt_file on a handle that has the attribute self.kyber: the
\* body runs on, keeps the encrypted content in self._encrypted_content and
\* returns or writes it
KyberEncryption_encrypt_file_with_kyber(self, args, files) ==
    IF Len(args) > 4 \/ Len(args) < 2
    THEN Raised("TypeError", files, <<>>)
    ELSE IF ~files[args[1]].exists
    THEN Raised("FileNotFoundError", files, <<"open">>)
    ELSE LET k == encap_secret(self.variant, args[2], 1, "ValueError")
             e == cipher_encrypt(self.cipher, files[args[1]].content,
                                 First32(k.shared_secret), 1)
         IN IF k.exc # "none" THEN Raised(k.exc, files, <<"open", "encapsulate">>)
            ELSE IF e.exc # "none" THEN Raised(e.exc, files, <<"open", "encapsulate">>)
            ELSE [NoFileResult EXCEPT !.encrypted_data = e.out, !.ciphertext = k.ciphertext,
                                      !.files = files, !.calls = <<"open", "encapsulate">>,
                                      !.attr = [set |-> TRUE, content |-> e.out]]

KyberEncryption_encrypt_file(self, args, files) ==
    IF Len(args) > 4 \/ Len(args) < 2
    THEN Raised("TypeError", files, <<>>)
    ELSE IF ~files[args[1]].exists
    THEN Raised("FileNotFoundError", files, <<"open">>)
    ELSE Raised("AttributeError", files, <<"open">>)

\* KyberEncryption.decrypt_file(self, encrypted_file, private_key,
\* ciphertext=None, output_file=None, return_as_data=False), the second
\* definition of the name, called with the positional arguments args and the
\* keyword arguments named in kwargs.  More than five positional arguments,
\* or a keyword that is no parameter, do not bind (TypeError).  The first
\* statement of the body asks for self.kyber (AttributeError).
KyberEncryption_decrypt_file_write_first(self, args, kwargs, files) ==
    LET params == <<"encrypted_file", "private_key", "ciphertext", "output_file",
                    "return_as_data">>
        bound == {params[i] : i \in 1..Min(Len(args), Len(params))}
        output_file == IF args[1] = "doc.encrypted" THEN "docrypted" ELSE args[1]
    IN IF \/ Len(args) > Len(params)
          \/ \E k \in kwargs : k \notin {params[i] : i \in 1..Len(params)}
          \/ kwargs \cap bound # {}
          \/ Len(args) < 2 /\ {"encrypted_file", "private_key"} \ (kwargs \cup bound) # {}
       THEN Raised("TypeError", files, <<>>)
       ELSE Raised("AttributeError",
                   [files EXCEPT ![output_file] =
                                     [exists |-> TRUE, content |-> <<>>, mode |-> 420]],
                   <<"open">>)

KyberEncryption_decrypt_file(self, args, kwargs, files) ==
    LET params == <<"encrypted_file", "private_key", "ciphertext", "output_file",
                    "return_as_data">>
        bound == {params[i] : i \in 1..Min(Len(args), Len(params))}
    IN IF \/ Len(args) > Len(params)
          \/ \E k \in kwargs : k \notin {params[i] : i \in 1..Len(params)}
          \/ kwargs \cap bound # {}
          \/ Len(args) < 2 /\ {"encrypted_file", "private_key"} \ (kwargs \cup bound) # {}
       THEN Raised("TypeError", files, <<>>)
       ELSE Raised("AttributeError", files, <<>>)

\* ------------------------------------------- src/src/dilithium_signatures.py
DilithiumSignature_init(variant) ==
    IF variant \notin DILITHIUM_SUPPORTED_VARIANTS
    THEN [exc |-> "ValueError", variant |-> "none"]
    ELSE [exc |-> "none", variant |-> variant]

\* hashlib.sha3_384(data).digest(): the digest names its pre-image
sha3_384(data) == [alg |-> "sha3_384", of |-> data]

NoSignature == [variant |-> "none", kid |-> 0, msg |-> sha3_384(<<>>), form |-> "none"]

\* oqs.Signature(variant, private_key).sign(message): a signature that
\* verifies for the message under the matching public key.  A key of another
\* variant has the wrong length: the provider raises or signs with a key
\* nobody holds.
sig_sign(variant, private_key, message, onMismatch) ==
    IF private_key.form = "ok" /\ private_key.part = "secret" /\ private_key.variant = variant
    THEN [exc |-> "none",
          signature |-> [variant |-> variant, kid |-> private_key.id, msg |-> message,
                         form |-> "ok"]]
    ELSE IF onMismatch = "garbage"
    THEN [exc |-> "none",
          signature |-> [variant |-> variant, kid |-> 0, msg |-> message, form |-> "ok"]]
    ELSE [exc |-> onMismatch, signature |-> NoSignature]

\* The signature verifies: intact, of this variant, made over this message
\* with the secret key of this public key.
Verifies(variant, message, signature, public_key) ==
    /\ signature.form = "ok" /\ signature.variant = variant
    /\ public_key.form = "ok" /\ public_key.part = "public" /\ public_key.variant = variant
    /\ signature.kid = public_key.id
    /\ signature.msg = message

\* All three byte strings have the shape the variant expects.
WellFormed(variant, signature, public_key) ==
    /\ signature.form = "ok" /\ signature.variant = variant
    /\ public_key.form = "ok" /\ public_key.part = "public" /\ public_key.variant = variant

\* oqs.Signature(variant).verify(message, signature, public_key): True or
\* False; on input of the wrong shape the provider may raise instead
\* (onMalformed).
sig_verify(variant, message, signature, public_key, onMalformed) ==
    IF Verifies(variant, message, signature, public_key)
    THEN [exc |-> "none", result |-> TRUE]
    ELSE IF WellFormed(variant, signature, public_key) \/ onMalformed = "False"
    THEN [exc |-> "none", result |-> FALSE]
    ELSE [exc |-> onMalformed, result |-> FALSE]

\* (mutant) the data signed as it is, without the digest
DilithiumSignature_sign_data_no_digest(self, data, private_key, onMismatch) ==
    LET r == sig_sign(self.dilithium_variant, private_key,
                      [alg |-> "identity", of |-> data], onMismatch)
    IN [exc |-> r.exc, signature |-> r.signature, calls |-> <<"sig_sign">>]

\* DilithiumSignature.sign_data
DilithiumSignature_sign_data(self, data, private_key, onMismatch) ==
    LET data_hash == sha3_384(data)
        r == sig_sign(self.dilithium_variant, private_key, data_hash, onMismatch)
    IN [exc |-> r.exc, signature |-> r.signature, calls |-> <<"sha3_384", "sig_sign">>]

\* (mutant) the provider's error let through
DilithiumSignature_verify_signature_raising(self, data, signature, public_key, onMalformed) ==
    LET data_hash == sha3_384(data)
        r == sig_verify(self.dilithium_variant, data_hash, signature, public_key, onMalformed)
    IN [exc |-> r.exc, result |-> r.result, calls |-> <<"sha3_384", "sig_verify">>]

\* DilithiumSignature.verify_signature: try ... except Exception: return False
DilithiumSignature_verify_signature(self, data, signature, public_key, onMalformed) ==
    LET data_hash == sha3_384(data)
        r == sig_verify(self.dilithium_variant, data_hash, signature, public_key, onMalformed)
    IN IF r.exc # "none"
       THEN [exc |-> "none", result |-> FALSE,
             calls |-> <<"sha3_384", "sig_verify", "except">>]
       ELSE [exc |-> "none", result |-> r.result, calls |-> <<"sha3_384", "sig_verify">>]

\* DilithiumSignature.sign_file: read the file, sign its content
DilithiumSignature_sign_file(self, file_path, private_key, files, onMismatch) ==
    IF ~files[file_path].exists
    THEN [exc |-> "FileNotFoundError", signature |-> NoSignature, calls |-> <<"open">>]
    ELSE LET r == DilithiumSignature_sign_data(self, files[file_path].content,
                                               private_key, onMismatch)
         IN [exc |-> r.exc, signature |-> r.signature, calls |-> <<"open">> \o r.calls]

\* DilithiumSignature.verify_file: read the file, verify over its content
DilithiumSignature_verify_file(self, file_path, signature, public_key, files, onMalformed) ==
    IF ~files[file_path].exists
    THEN [exc |-> "FileNotFoundError", result |-> FALSE, calls |-> <<"open">>]
    ELSE LET r == DilithiumSignature_verify_signature(self, files[file_path].content, signature, public_key, onMalformed)
         IN [exc |-> r.exc, result |-> r.result, calls |-> <<"open">> \o r.calls]

\* ---------------------------------------------- src/src/key_management.py
\* The key directory and the fixed, type-specific file names in it; every
\* key_type other than "signature" means the encryption files
KeyDirectory == "keys"

\* (mutant) one pair of names for every key_type
KeyPaths_one_pair(key_type) ==
    [pub |-> "keys/encryption_public_key.bin", priv |-> "keys/encryption_private_key.bin"]

KeyPaths(key_type) ==
    IF key_type = "signature"
    THEN [pub |-> "keys/signature_public_key.bin", priv |-> "keys/signature_private_key.bin"]
    ELSE [pub |-> "keys/encryption_public_key.bin", priv |-> "keys/encryption_private_key.bin"]

\* Permission bits: owner-only read/write (0o600), and what open() and mkdir()
\* give a new file (0o666) or directory (0o777) under the process umask; the
\* callers modelled run under the usual umask 0o022
OwnerOnly == 384
Umasks == {18}
CreateMode(umask) == IF umask = 63 THEN 384 ELSE 420
DirMode(umask) == IF umask = 63 THEN 448 ELSE 493

\* Outcomes of os.chmod: done, or an exception on a file system without it
ChmodOutcomes == {"ok", "raises"}

\* directory.mkdir(parents=True, exist_ok=True)
mkdir(path, files, umask) ==
    IF files[path].exists THEN files
    ELSE [files EXCEPT ![path] = [exists |-> TRUE, content |-> <<>>, mode |-> DirMode(umask)]]

\* open(path, 'wb'): the file is created under the umask, or emptied with
\* the mode it has
open_wb(path, files, umask) ==
    [files EXCEPT ![path] = [exists |-> TRUE, content |-> <<>>,
                             mode |-> IF files[path].exists THEN files[path].mode
                                      ELSE CreateMode(umask)]]

\* f.write(key) and the close that ends the with block
write_key(path, key, files) == [files EXCEPT ![path].content = <<key>>]

\* (mutant) the permission change left out
chmod_private_key_skipped(path, files, chmod) == files

\* try: os.chmod(priv_key_path, 0o600) / except Exception: pass
chmod_private_key(path, files, chmod) ==
    IF chmod = "ok" THEN [files EXCEPT ![path].mode = OwnerOnly] ELSE files

\* (mutant) both keys written under the public key's name
save_keys_one_file(public_key, private_key, key_type, files, umask, chmod) ==
    write_key(KeyPaths(key_type).pub, private_key,
              open_wb(KeyPaths(key_type).pub, mkdir(KeyDirectory, files, umask), umask))

\* save_keys: make the directory, write the public key file, write the
\* private key file, restrict the private key file
save_keys(public_key, private_key, key_type, files, umask, chmod) ==
    LET paths == KeyPaths(key_type)
        made == mkdir(KeyDirectory, files, umask)
        pubWritten == write_key(paths.pub, public_key, open_wb(paths.pub, made, umask))
        privWritten == write_key(paths.priv, private_key, open_wb(paths.priv, pubWritten, umask))
    IN chmod_private_key(paths.priv, privWritten, chmod)

\* What load_keys returns; NoKey stands for None
NoKeyPair == [exc |-> "none", public_key |-> NoKey, private_key |-> NoKey]

\* (mutant) only the public key file looked for: open() fails on the other
load_keys_one_check(key_type, files) ==
    LET paths == KeyPaths(key_type)
    IN IF ~files[paths.pub].exists
       THEN NoKeyPair
       ELSE IF ~files[paths.priv].exists
       THEN [NoKeyPair EXCEPT !.exc = "FileNotFoundError"]
       ELSE [exc |-> "none", public_key |-> files[paths.pub].content[1],
             private_key |-> files[paths.priv].content[1]]

\* load_keys: (None, None) unless both files exist, their contents otherwise
load_keys(key_type, files) ==
    LET paths == KeyPaths(key_type)
    IN IF ~files[paths.pub].exists \/ ~files[paths.priv].exists
       THEN NoKeyPair
       ELSE [exc |-> "none", public_key |-> files[paths.pub].content[1],
             private_key |-> files[paths.priv].content[1]]

\* (mutant) deleted reported only when the second unlink happened
delete_keys_last_flag(key_type, files) ==
    LET paths == KeyPaths(key_type)
    IN [deleted |-> files[paths.priv].exists,
        files |-> [files EXCEPT ![paths.pub] = [exists |-> FALSE, content |-> <<>>, mode |-> 0],
                                ![paths.priv] = [exists |-> FALSE, content |-> <<>>, mode |-> 0]]]

\* delete_keys: unlink whichever of the two files exist; True when one did
delete_keys(key_type, files) ==
    LET paths == KeyPaths(key_type)
        afterPub == IF files[paths.pub].exists
                    THEN [files EXCEPT ![paths.pub] = [exists |-> FALSE, content |-> <<>>, mode |-> 0]]
                    ELSE files
        afterPriv == IF afterPub[paths.priv].exists
                     THEN [afterPub EXCEPT ![paths.priv] = [exists |-> FALSE, content |-> <<>>, mode |-> 0]]
                     ELSE afterPub
    IN [deleted |-> files[paths.pub].exists \/ files[paths.priv].exists,
        files |-> afterPriv]

\* ------------------------------------------------------------ src/src/api.py
\* A PQFE handle: its KyberEncryption (variant, cipher_name, cipher) and its
\* DilithiumSignature (dilithium_variant).
PQFE_init(kyber_variant, dilithium_variant, cipher) ==
    LET e == KyberEncryption_init(kyber_variant, cipher)
        s == DilithiumSignature_init(dilithium_variant)
    IN IF e.exc # "none" THEN [exc |-> e.exc, self |-> NoHandle]
       ELSE IF s.exc # "none" THEN [exc |-> s.exc, self |-> NoHandle]
       ELSE [exc |-> "none", self |-> [e.self EXCEPT !.dilithium_variant = s.variant]]

PQFE_get_cipher_name(cipher_instance) ==
    IF cipher_instance = "AES256GCMCipher" THEN "AES256GCM"
    ELSE IF cipher_instance = "ChaCha20Poly1305Cipher" THEN "ChaCha20Poly1305"
    ELSE "AES256GCM"

NoEncryptResult == [exc |-> "none", encrypted_data |-> <<>>, ciphertext |-> NoCiphertext,
                    shared_secret |-> NoSecret, keys |-> {}, calls |-> <<>>]

\* PQFE.encrypt_data.  keys: the keys of the dict it returns.
PQFE_encrypt_data(self, data, public_key, fresh, onMismatch) ==
    LET kem == encap_secret(self.variant, public_key, fresh, onMismatch)
    IN IF kem.exc # "none"
       THEN [NoEncryptResult EXCEPT !.exc = kem.exc, !.calls = <<"encap_secret">>]
       ELSE LET enc == cipher_encrypt(self.cipher, data, First32(kem.shared_secret), fresh)
            IN IF enc.exc # "none"
               THEN [NoEncryptResult EXCEPT !.exc = enc.exc,
                                            !.calls = <<"encap_secret">> \o enc.calls]
               ELSE [exc |-> "none", encrypted_data |-> enc.out,
                     ciphertext |-> kem.ciphertext, shared_secret |-> kem.shared_secret,
                     keys |-> {"encrypted_data", "ciphertext", "shared_secret"},
                     calls |-> <<"encap_secret">> \o enc.calls]

NoDecryptResult == [exc |-> "none", decrypted_data |-> <<>>, keys |-> {}, calls |-> <<>>]

\* (mutant) the KEM variant taken from the ciphertext instead of the handle
PQFE_decrypt_data_any_variant(self, encrypted_data, ciphertext, private_key, onMismatch) ==
    LET kem == decap_secret(ciphertext.variant, private_key, ciphertext, onMismatch)
    IN IF kem.exc # "none"
       THEN [NoDecryptResult EXCEPT !.exc = kem.exc, !.calls = <<"decap_secret">>]
       ELSE LET dec == cipher_decrypt(self.cipher, encrypted_data, First32(kem.shared_secret))
            IN IF dec.exc # "none"
               THEN [NoDecryptResult EXCEPT !.exc = dec.exc,
                                            !.calls = <<"decap_secret">> \o dec.calls]
               ELSE [exc |-> "none", decrypted_data |-> dec.out,
                     keys |-> {"decrypted_data"},
                     calls |-> <<"decap_secret">> \o dec.calls]

\* PQFE.decrypt_data
PQFE_decrypt_data(self, encrypted_data, ciphertext, private_key, onMismatch) ==
    LET kem == decap_secret(self.variant, private_key, ciphertext, onMismatch)
    IN IF kem.exc # "none"
       THEN [NoDecryptResult EXCEPT !.exc = kem.exc, !.calls = <<"decap_secret">>]
       ELSE LET dec == cipher_decrypt(self.cipher, encrypted_data, First32(kem.shared_secret))
            IN IF dec.exc # "none"
               THEN [NoDecryptResult EXCEPT !.exc = dec.exc,
                                            !.calls = <<"decap_secret">> \o dec.calls]
               ELSE [exc |-> "none", decrypted_data |-> dec.out,
                     keys |-> {"decrypted_data"},
                     calls |-> <<"decap_secret">> \o dec.calls]

\* isinstance(key, bytes) and len(key) < 10 on the model's key material
IsBytes(key) == key.form # "notbytes"
ShorterThan10(key) == key.form \in {"empty", "short"}

NoEncryptor == [public_key |-> NoKey, variant |-> "none", cipher |-> "none"]

\* PQFEEncryptor.__init__: the key is checked, the variant is stored as
\* given, the cipher comes from the factory
PQFEEncryptor_init(public_key, variant, cipher) ==
    IF ~IsBytes(public_key) \/ ShorterThan10(public_key)
    THEN [exc |-> "ValueError", self |-> NoEncryptor, calls |-> <<>>]
    ELSE LET c == get_cipher_instance(cipher)
         IN IF c.exc # "none"
            THEN [exc |-> c.exc, self |-> NoEncryptor, calls |-> <<"get_cipher_instance">>]
            ELSE [exc |-> "none",
                  self |-> [public_key |-> public_key, variant |-> variant,
                            cipher |-> c.cipher],
                  calls |-> <<"get_cipher_instance">>]

\* PQFEEncryptor.encrypt_data
PQFEEncryptor_encrypt_data(self, data, fresh, onMismatch) ==
    LET kem == encap_secret(self.variant, self.public_key, fresh, onMismatch)
    IN IF kem.exc # "none"
       THEN [NoEncryptResult EXCEPT !.exc = kem.exc, !.calls = <<"encap_secret">>]
       ELSE LET enc == cipher_encrypt(self.cipher, data, First32(kem.shared_secret), fresh)
            IN IF enc.exc # "none"
               THEN [NoEncryptResult EXCEPT !.exc = enc.exc,
                                            !.calls = <<"encap_secret">> \o enc.calls]
               ELSE [exc |-> "none", encrypted_data |-> enc.out,
                     ciphertext |-> kem.ciphertext, shared_secret |-> NoSecret,
                     keys |-> {"encrypted_data", "ciphertext"},
                     calls |-> <<"encap_secret">> \o enc.calls]

\* PQFEEncryptor.encrypt_file with output_dir and output_filename left None:
\* read the file, encrypt its content, and return the blob or hand path and
\* blob to write_encrypted_file, which takes four arguments
PQFEEncryptor_encrypt_file(self, file_path, return_as_data, files, fresh, onMismatch) ==
    IF ~files[file_path].exists
    THEN [NoEncryptResult EXCEPT !.exc = "FileNotFoundError", !.calls = <<"read_file">>]
    ELSE LET r == PQFEEncryptor_encrypt_data(self, files[file_path].content, fresh, onMismatch)
         IN IF r.exc # "none"
            THEN [r EXCEPT !.calls = <<"read_file">> \o r.calls]
            ELSE IF return_as_data
            THEN [r EXCEPT !.calls = <<"read_file">> \o r.calls]
            ELSE [NoEncryptResult EXCEPT !.exc = "TypeError",
                                         !.calls = <<"read_file">> \o r.calls
                                                   \o <<"write_encrypted_file">>]

\* (mutant) the encryptor built with the default cipher
PQFE_create_encryptor_default_cipher(self, public_key) ==
    PQFEEncryptor_init(public_key, self.variant, "AES256GCM")

\* PQFE.create_encryptor
PQFE_create_encryptor(self, public_key) ==
    LET cipher_name == PQFE_get_cipher_name(self.cipher)
    IN PQFEEncryptor_init(public_key, self.variant, cipher_name)

\* PQFE.sign_data / PQFE.verify_data
PQFE_sign_data(self, data, private_key, onMismatch) ==
    DilithiumSignature_sign_data(self, data, private_key, onMismatch)

PQFE_verify_data(self, data, signature, public_key, onMalformed) ==
    DilithiumSignature_verify_signature(self, data, signature, public_key, onMalformed)

NoSigner == [key |-> NoKey, variant |-> "none", dilithium_variant |-> "none"]

\* PQFESigner.__init__ / PQFEVerifier.__init__: the key, the variant and the
\* DilithiumSignature built for it
PQFESigner_init(private_key, variant) ==
    IF ~IsBytes(private_key) \/ ShorterThan10(private_key)
    THEN [exc |-> "ValueError", self |-> NoSigner, calls |-> <<>>]
    ELSE LET d == DilithiumSignature_init(variant)
         IN IF d.exc # "none"
            THEN [exc |-> d.exc, self |-> NoSigner, calls |-> <<"DilithiumSignature">>]
            ELSE [exc |-> "none",
                  self |-> [key |-> private_key, variant |-> variant,
                            dilithium_variant |-> d.variant],
                  calls |-> <<"DilithiumSignature">>]

\* (mutant) the verifier built without looking at the key
PQFEVerifier_init_unchecked(public_key, variant) ==
    LET d == DilithiumSignature_init(variant)
    IN IF d.exc # "none"
       THEN [exc |-> d.exc, self |-> NoSigner, calls |-> <<"DilithiumSignature">>]
       ELSE [exc |-> "none",
             self |-> [key |-> public_key, variant |-> variant,
                       dilithium_variant |-> d.variant],
             calls |-> <<"DilithiumSignature">>]

PQFEVerifier_init(public_key, variant) ==
    IF ~IsBytes(public_key) \/ ShorterThan10(public_key)
    THEN [exc |-> "ValueError", self |-> NoSigner, calls |-> <<>>]
    ELSE LET d == DilithiumSignature_init(variant)
         IN IF d.exc # "none"
            THEN [exc |-> d.exc, self |-> NoSigner, calls |-> <<"DilithiumSignature">>]
            ELSE [exc |-> "none",
                  self |-> [key |-> public_key, variant |-> variant,
                            dilithium_variant |-> d.variant],
                  calls |-> <<"DilithiumSignature">>]

PQFESigner_sign_data(self, data, onMismatch) ==
    DilithiumSignature_sign_data(self, data, self.key, onMismatch)

PQFEVerifier_verify_data(self, data, signature, onMalformed) ==
    DilithiumSignature_verify_signature(self, data, signature, self.key, onMalformed)

PQFESigner_sign_file(self, file_path, files, onMismatch) ==
    DilithiumSignature_sign_file(self, file_path, self.key, files, onMismatch)

PQFEVerifier_verify_file(self, file_path, signature, files, onMalformed) ==
    DilithiumSignature_verify_file(self, file_path, signature, self.key, files, onMalformed)

\* PQFE.create_signer / PQFE.create_verifier
PQFE_create_signer(self, private_key) == PQFESigner_init(private_key, self.dilithium_variant)
PQFE_create_verifier(self, public_key) == PQFEVerifier_init(public_key, self.dilithium_variant)

\* None, where a parameter has it as default
None == "None"

\* PQFE.encrypt_file: every argument handed on by position
PQFE_encrypt_file(self, file_path, public_key, output_dir, output_filename, return_as_data, files) ==
    KyberEncryption_encrypt_file(
        self, <<file_path, public_key, output_dir, output_filename, return_as_data>>, files)

\* PQFE.decrypt_file: a missing private key is refused, then six arguments
\* handed on by position and encrypted_data by keyword
PQFE_decrypt_file(self, encrypted_file, ciphertext, private_key, output_dir, output_filename, return_as_data, encrypted_data, files) ==
    IF private_key = NoKey
    THEN Raised("ValueError", files, <<>>)
    ELSE KyberEncryption_decrypt_file(
             self, <<encrypted_file, private_key, ciphertext, output_dir, output_filename,
                     return_as_data>>, {"encrypted_data"}, files)

\* PQFE.sign_file
PQFE_sign_file(self, file_path, private_key, files, onMismatch) ==
    DilithiumSignature_sign_file(self, file_path, private_key, files, onMismatch)

\* PQFE.encrypt_and_sign: sign the file, then encrypt it, then put the
\* signature into the encryption's result
PQFE_encrypt_and_sign(self, file_path, encryption_public_key, signature_private_key, return_as_data, files, onMismatch) ==
    LET s == PQFE_sign_file(self, file_path, signature_private_key, files, onMismatch)
        e == PQFE_encrypt_file(self, file_path, encryption_public_key, None, None,
                               return_as_data, files)
    IN IF s.exc # "none"
       THEN Raised(s.exc, files, <<"sign_file">> \o s.calls)
       ELSE [e EXCEPT !.signature = IF e.exc = "none" THEN <<s.signature>> ELSE <<>>,
                      !.calls = <<"sign_file">> \o s.calls \o <<"encrypt_file">> \o e.calls]

\* file_ops.write_decrypted_file(encrypted_file, decrypted_content): the
\* path without '.enc' gets the content
WithoutEnc(path) == IF path = "doc.encrypted" THEN "docrypted" ELSE path

write_decrypted_file(encrypted_file, decrypted_content, files) ==
    LET output_path == WithoutEnc(encrypted_file)
    IN [path |-> output_path,
        files |-> [files EXCEPT ![output_path] =
                                    [exists |-> TRUE, content |-> decrypted_content, mode |-> 420]]]

\* PQFE.decrypt_and_verify: decrypt_file with return_as_data=True, refuse an
\* empty payload, verify the signature over the payload, then return the
\* payload or write it
PQFE_decrypt_and_verify(self, encrypted_file, ciphertext, signature, encryption_private_key, verification_public_key, return_as_data, encrypted_data, files, onMalformed) ==
    LET d == PQFE_decrypt_file(self, encrypted_file, ciphertext, encryption_private_key,
                               None, None, TRUE, encrypted_data, files)
        decrypted_data == d.decrypted_data
        v == PQFE_verify_data(self, decrypted_data, signature, verification_public_key,
                              onMalformed)
        w == write_decrypted_file(encrypted_file, decrypted_data, d.files)
    IN IF d.exc # "none"
       THEN [d EXCEPT !.calls = <<"decrypt_file">> \o d.calls]
       ELSE IF decrypted_data = <<>>
       THEN Raised("ValueError", d.files, <<"decrypt_file">>)
       ELSE IF return_as_data
       THEN [NoFileResult EXCEPT !.verified = v.result, !.decrypted_data = decrypted_data,
                                 !.files = d.files,
                                 !.calls = <<"decrypt_file", "verify_data">>]
       ELSE IF d.path # "none"
       THEN [NoFileResult EXCEPT !.verified = v.result, !.path = d.path, !.files = d.files,
                                 !.calls = <<"decrypt_file", "verify_data">>]
       ELSE [NoFileResult EXCEPT !.verified = v.result, !.path = w.path, !.files = w.files,
                                 !.calls = <<"decrypt_file", "verify_data",
                                             "write_decrypted_file">>]

\* PQFE.generate_encryption_keys / generate_signature_keys: the provider's
\* i-th key pair of the handle's variant, saved under its purpose and returned
PQFE_generate_encryption_keys(self, i, files, umask, chmod) ==
    [public_key |-> PublicKey(self.variant, i), private_key |-> SecretKey(self.variant, i),
     files |-> save_keys(PublicKey(self.variant, i), SecretKey(self.variant, i),
                         "encryption", files, umask, chmod)]

PQFE_generate_signature_keys(self, i, files, umask, chmod) ==
    [public_key |-> PublicKey(self.dilithium_variant, i),
     private_key |-> SecretKey(self.dilithium_variant, i),
     files |-> save_keys(PublicKey(self.dilithium_variant, i),
                         SecretKey(self.dilithium_variant, i), "signature", files,
                         umask, chmod)]

\* PQFE.load_encryption_keys / load_signature_keys
PQFE_load_encryption_keys(self, files) == load_keys("encryption", files)
PQFE_load_signature_keys(self, files) == load_keys("signature", files)

\* ------------------------------------------------------------ envelope file
\* Bytes of an envelope file. 10 is the newline byte b'\n'; 0 stands for every
\* other byte value of encrypted content and of a KEM ciphertext.
Newline == 10
FileBytes == {0, Newline}
MaxFileLen == 2
FileContents == UNION {[1..n -> FileBytes] : n \in 0..MaxFileLen}

\* Metadata records the caller passes
Metadatas == {0, 1}

\* ASCII codes of the JSON text
Brace == 123
EndBrace == 125
Comma == 44
Digit0 == 48
LetterA == 97

\* bytes.hex(): two lower-case hexadecimal digits per byte
RECURSIVE hex(_)
hex(b) ==
    IF b = <<>> THEN <<>>
    ELSE <<Digit0 + (Head(b) \div 16),
           IF Head(b) % 16 < 10 THEN Digit0 + (Head(b) % 16)
                                ELSE LetterA + (Head(b) % 16) - 10>> \o hex(Tail(b))

\* The value of one hexadecimal digit, -1 for any other character
HexValue(c) ==
    IF c \in Digit0..(Digit0 + 9) THEN c - Digit0
    ELSE IF c \in LetterA..(LetterA + 5) THEN c - LetterA + 10
    ELSE -1

\* bytes.fromhex(): ValueError on an odd length or a non-hexadecimal digit
RECURSIVE fromhex(_)
fromhex(t) ==
    IF t = <<>> THEN [exc |-> "none", bytes |-> <<>>]
    ELSE IF Len(t) = 1 \/ HexValue(t[1]) < 0 \/ HexValue(t[2]) < 0
    THEN [exc |-> "ValueError", bytes |-> <<>>]
    ELSE LET rest == fromhex(SubSeq(t, 3, Len(t)))
         IN IF rest.exc # "none" THEN rest
            ELSE [exc |-> "none",
                  bytes |-> <<16 * HexValue(t[1]) + HexValue(t[2])>> \o rest.bytes]

\* json.dumps({'ciphertext': ciphertext.hex(), 'metadata': metadata}).encode():
\* one line of ASCII text, here the opening brace, the hexadecimal digits, a
\* comma, the metadata and the closing brace. json.dumps writes a newline
\* inside a string as an escape, so the text holds no byte 10.
json_dumps(ciphertext_hex, metadata) ==
    <<Brace>> \o ciphertext_hex \o <<Comma, Digit0 + metadata>> \o <<EndBrace>>

\* Leading white space of a JSON text
RECURSIVE lstrip(_)
lstrip(t) == IF t # <<>> /\ Head(t) = Newline THEN lstrip(Tail(t)) ELSE t

NoJson == [exc |-> "JSONDecodeError", ciphertext |-> <<>>, metadata |-> 0]

\* json.loads(): white space around the value is skipped, then the text must
\* be one object of the shape json_dumps writes
json_loads(text) ==
    LET t == lstrip(text)
        n == Len(t)
    IN IF n < 4 THEN NoJson
       ELSE IF t[1] # Brace \/ t[n] # EndBrace \/ t[n - 2] # Comma THEN NoJson
       ELSE IF t[n - 1] - Digit0 \notin Metadatas THEN NoJson
       ELSE IF \E i \in 2..(n - 3) : HexValue(t[i]) < 0 THEN NoJson
       ELSE [exc |-> "none", ciphertext |-> SubSeq(t, 2, n - 3),
             metadata |-> t[n - 1] - Digit0]

\* The position of the first newline byte of b, 0 when it has none
FirstNewline(b) ==
    IF \E i \in 1..Len(b) : b[i] = Newline
    THEN CHOOSE i \in 1..Len(b) : b[i] = Newline /\ \A j \in 1..(i - 1) : b[j] # Newline
    ELSE 0

\* content.split(b'\n', 1): the parts before and after the first newline
split_once(content) ==
    LET i == FirstNewline(content)
    IN IF i = 0 THEN <<content>>
       ELSE <<SubSeq(content, 1, i - 1), SubSeq(content, i + 1, Len(content))>>

\* file_ops.write_encrypted_file: the bytes written to file_path + '.enc'
write_encrypted_file(file_path, encrypted_content, ciphertext, metadata) ==
    [path |-> <<file_path, ".enc">>,
     bytes |-> encrypted_content \o <<Newline>> \o json_dumps(hex(ciphertext), metadata)]

NoRead == [done |-> FALSE, exc |-> "none", encrypted_content |-> <<>>,
           ciphertext |-> <<>>, metadata |-> 0]

\* file_ops.read_encrypted_file on a file holding content
read_encrypted_file(content) ==
    LET parts == split_once(content)
    IN IF Len(parts) # 2
       THEN [NoRead EXCEPT !.done = TRUE, !.exc = "ValueError"]
       ELSE LET metadata == json_loads(parts[2])
                ciphertext == fromhex(metadata.ciphertext)
            IN IF metadata.exc # "none"
               THEN [NoRead EXCEPT !.done = TRUE, !.exc = metadata.exc]
               ELSE IF ciphertext.exc # "none"
               THEN [NoRead EXCEPT !.done = TRUE, !.exc = ciphertext.exc]
               ELSE [done |-> TRUE, exc |-> "none", encrypted_content |-> parts[1],
                     ciphertext |-> ciphertext.bytes, metadata |-> metadata.metadata]

\* No envelope file written yet
NoEncFile == [written |-> FALSE, path |-> <<>>, bytes |-> <<>>, encrypted_content |-> <<>>,
              ciphertext |-> <<>>, metadata |-> 0, read |-> NoRead]

\* ------------------------------------------------------------------- state
VARIABLES
    envelope,   \* the envelope the caller holds: the last encrypt result, with
                \* what it was made from (P, pub, variant, cipher, by, maker, gen, root)
    last,       \* the last API call: operation, handle, key, outcome, provider calls
    encaps,     \* encapsulations the provider has performed (numbers its
                \* fresh secrets and nonces)
    signature,  \* the signature the caller holds: the last sign result, with
                \* what it was made from (D, priv, h, by)
    fs,         \* the file system: for every path, whether a file is there
                \* and what it holds
    attrs,      \* for every handle, its attribute _encrypted_content
    procs,      \* the save_keys and load_keys calls in progress
    held,       \* the role-scoped handle the caller holds
    encfile     \* the envelope file: what was written to it and what was read back

vars == <<envelope, last, encaps, signature, fs, attrs, procs, held, encfile>>

\* Handles a caller can construct: every supported variant and cipher.
Handles == {PQFE_init(kv, "Dilithium3", c).self :
                kv \in KYBER_SUPPORTED_VARIANTS, c \in {"AES256GCM", "ChaCha20Poly1305"}}

NoEnvelope == [has |-> FALSE, encrypted_data |-> <<>>, ciphertext |-> NoCiphertext,
               keys |-> {}, P |-> <<>>, pub |-> NoKey, variant |-> "none",
               cipher |-> "none", by |-> "none", maker |-> NoHandle, gen |-> 0,
               root |-> <<>>, rcpts |-> {}, symkey |-> NoSecret]

Idle == [op |-> "none", exc |-> "none", h |-> NoHandle, key |-> NoKey, data |-> <<>>,
         flag |-> FALSE, calls |-> <<>>, tamper |-> 0, form |-> "ok",
         key2 |-> NoKey, out |-> <<>>, return_as_data |-> FALSE, symkey |-> NoSecret,
         key_type |-> "none", had |-> 0]

KeyTypes == {"encryption", "signature"}
KeyFiles == UNION {{KeyPaths(t).pub, KeyPaths(t).priv} : t \in KeyTypes}
Paths == {"doc", "doc.encrypted", "docrypted", KeyDirectory} \cup KeyFiles
NoFile == [exists |-> FALSE, content |-> <<>>, mode |-> 0]
NoFiles == [p \in Paths |-> NoFile]

\* Callers of the key store: two that save and one that loads, each at the
\* statement it runs next, with the arguments and locals of its call; passed
\* collects the (public, private) pairs handed to save_keys so far, and
\* chmod_raised tells whether an os.chmod has raised so far
Savers == {1, 2}
NoSave == [pc |-> "idle", public_key |-> NoKey, private_key |-> NoKey, key_type |-> "none"]
NoLoad == [pc |-> "idle", public_key |-> NoKey, private_key |-> NoKey, key_type |-> "none"]
NoCalls == [save |-> [p \in Savers |-> NoSave], load |-> NoLoad, passed |-> {},
            chmod_raised |-> FALSE]

\* A PQFEEncryptor, PQFESigner or PQFEVerifier: its class and attributes
NoHeld == [class |-> "none", key |-> NoKey, variant |-> "none", cipher |-> "none"]

NoHeldSignature == [has |-> FALSE, sig |-> NoSignature, D |-> <<>>, priv |-> NoKey,
                    h |-> NoHandle, by |-> "none"]

Init == /\ envelope = NoEnvelope
        /\ last = Idle
        /\ encaps = 0
        /\ signature = NoHeldSignature
        /\ fs = NoFiles
        /\ attrs = [h \in Handles |-> NoAttr]
        /\ procs = NoCalls
        /\ held = NoHeld
        /\ encfile = NoEncFile

\* last is a decrypt_data that returned a plaintext
Recovered == last.op = "decrypt_data" /\ last.exc = "none"

\* The caller holds nothing yet; it decrypts an envelope right after the
\* encrypt call that produced it (decrypt_data changes neither the envelope
\* nor the handle, so every decryption of every envelope is still reached).
JustEncrypted == envelope.has /\ last.op # "decrypt_data"

\* PQFE.encrypt_data(data, public_key) on handle h
EncryptData(h, data, public_key, onMismatch) ==
    /\ ~envelope.has
    /\ encaps < MaxEncaps
    /\ LET r == PQFE_encrypt_data(h, data, public_key, encaps + 1, onMismatch)
       IN /\ last' = [Idle EXCEPT !.op = "encrypt_data", !.exc = r.exc, !.h = h,
                                  !.key = public_key, !.calls = r.calls]
          /\ envelope' = IF r.exc # "none" THEN envelope
                         ELSE [has |-> TRUE, encrypted_data |-> r.encrypted_data,
                               ciphertext |-> r.ciphertext, keys |-> r.keys,
                               P |-> data, pub |-> public_key, variant |-> h.variant,
                               cipher |-> h.cipher, by |-> "PQFE", maker |-> h,
                               gen |-> 0, root |-> data, rcpts |-> {}, symkey |-> NoSecret]
    /\ encaps' = encaps + 1
    /\ UNCHANGED <<signature, fs, attrs, procs, held, encfile>>

\* The envelope h.create_encryptor(public_key).encrypt_data(data) gives; gen
\* counts the re-encryptions since the root plaintext root, rcpts the
\* recipients they were made for.
EncryptorStep(h, data, public_key, onMismatch, gen, root, rcpts) ==
    LET e == PQFE_create_encryptor(h, public_key)
        r == IF e.exc # "none" THEN [NoEncryptResult EXCEPT !.exc = e.exc]
             ELSE PQFEEncryptor_encrypt_data(e.self, data, encaps + 1, onMismatch)
    IN /\ last' = [Idle EXCEPT !.op = "encryptor.encrypt_data", !.exc = r.exc, !.h = h,
                               !.key = public_key, !.calls = r.calls]
       /\ envelope' = IF r.exc # "none" THEN envelope
                      ELSE [has |-> TRUE, encrypted_data |-> r.encrypted_data,
                            ciphertext |-> r.ciphertext, keys |-> r.keys,
                            P |-> data, pub |-> public_key, variant |-> e.self.variant,
                            cipher |-> e.self.cipher, by |-> "PQFEEncryptor",
                            maker |-> h, gen |-> gen, root |-> root, rcpts |-> rcpts,
                            symkey |-> NoSecret]
       /\ encaps' = encaps + 1
       /\ UNCHANGED <<signature, fs, attrs, procs, held, encfile>>

\* h.create_encryptor(public_key).encrypt_data(data) on fresh data
EncryptorEncryptData(h, data, public_key, onMismatch) ==
    /\ ~envelope.has
    /\ encaps < MaxEncaps
    /\ EncryptorStep(h, data, public_key, onMismatch, 0, data, {})

\* The holder of a plaintext that decrypt_data recovered re-encrypts it, with
\* the handle that decrypted it, for a recipient it has not served yet.
ReEncryptData(public_key, onMismatch) ==
    /\ Recovered
    /\ encaps < MaxEncaps
    /\ public_key \notin envelope.rcpts
    /\ EncryptorStep(last.h, last.data, public_key, onMismatch, envelope.gen + 1,
                     envelope.root, envelope.rcpts \cup {public_key})

\* h.decrypt_data(encrypted_data, ciphertext, private_key) on the envelope
\* held, its AEAD blob as it is (tamper = 0) or with a bit of byte tamper
\* changed on the way.
DecryptData(h, private_key, tamper, onMismatch) ==
    /\ JustEncrypted
    /\ tamper \in 0..Len(envelope.encrypted_data)
    /\ LET blob == IF tamper = 0 THEN envelope.encrypted_data
                   ELSE FlipBit(envelope.encrypted_data, tamper)
           r == PQFE_decrypt_data(h, blob, envelope.ciphertext, private_key, onMismatch)
       IN last' = [Idle EXCEPT !.op = "decrypt_data", !.exc = r.exc, !.h = h,
                               !.key = private_key, !.data = r.decrypted_data,
                               !.calls = r.calls, !.tamper = tamper]
    /\ UNCHANGED <<envelope, encaps, signature, fs, attrs, procs, held, encfile>>

\* The handle has the variant and cipher the envelope was made with.
SameConfig(h) == h.variant = envelope.variant /\ h.cipher = envelope.cipher

\* The provider's choice on a mismatch: only where there is one.
Outcomes(h, k) == IF k.variant = h.variant /\ envelope.ciphertext.variant = h.variant
                     /\ envelope.ciphertext.kid = k.id
                  THEN {"ValueError"} ELSE ProviderOutcomes

Next ==
    \/ \E h \in Handles, P \in Payloads, i \in KeyIds :
          EncryptData(h, P, PublicKey(h.variant, i), "ValueError")
    \/ \E h \in Handles, P \in Payloads, i \in KeyIds :
          EncryptorEncryptData(h, P, PublicKey(h.variant, i), "ValueError")
    \/ \E i \in KeyIds : ReEncryptData(PublicKey(last.h.variant, i), "ValueError")
    \/ \E h \in Handles, k \in KemSecretKeys : \E o \in Outcomes(h, k) :
          /\ k.variant \in {h.variant, envelope.variant}
          /\ DecryptData(h, k, 0, o)
    \/ \E h \in Handles, k \in KemSecretKeys, t \in 1..(MaxLen + 28) :
          /\ Matches(envelope.pub, k)
          /\ SameConfig(h)
          /\ DecryptData(h, k, t, "ValueError")

Spec == Init /\ [][Next]_vars

\* ------------------------------------------------------- signing behaviours
SigHandles == {PQFE_init("Kyber512", dv, "AES256GCM").self : dv \in DILITHIUM_SUPPORTED_VARIANTS}

\* Byte strings that are no public key of any variant
MalformedKeys == {[variant |-> "none", id |-> 0, part |-> "public", form |-> f] :
                     f \in {"empty", "short"}}

\* What reaches the verifier: the signature as made, or corrupted, truncated
\* or emptied on the way
SignatureForms == {"ok", "corrupt", "truncated", "empty"}
Damaged(sig, form) == IF form = "ok" THEN sig ELSE [sig EXCEPT !.form = form]

VerifyOps == {"verify_data", "verifier.verify_data"}

\* h.sign_data(data, private_key), or h.create_signer(private_key).sign_data(data)
SignData(h, data, private_key, by, onMismatch) ==
    /\ ~signature.has
    /\ LET c == PQFE_create_signer(h, private_key)
           r == IF by = "PQFE" THEN PQFE_sign_data(h, data, private_key, onMismatch)
                ELSE IF c.exc # "none"
                THEN [exc |-> c.exc, signature |-> NoSignature, calls |-> <<>>]
                ELSE PQFESigner_sign_data(c.self, data, onMismatch)
       IN /\ last' = [Idle EXCEPT !.op = IF by = "PQFE" THEN "sign_data"
                                         ELSE "signer.sign_data",
                                  !.exc = r.exc, !.h = h, !.key = private_key,
                                  !.data = data, !.calls = r.calls]
          /\ signature' = IF r.exc # "none" THEN signature
                          ELSE [has |-> TRUE, sig |-> r.signature, D |-> data,
                                priv |-> private_key, h |-> h, by |-> by]
    /\ UNCHANGED <<envelope, encaps, fs, attrs, procs, held, encfile>>

\* h.verify_data(data, signature, public_key), or
\* h.create_verifier(public_key).verify_data(data, signature), on the held
\* signature as it reaches the verifier
VerifyData(h, data, form, public_key, by, onMalformed) ==
    /\ signature.has
    /\ last.op \in {"sign_data", "signer.sign_data"}
    /\ LET sig == Damaged(signature.sig, form)
           c == PQFE_create_verifier(h, public_key)
           made == by = "PQFE" \/ c.exc = "none"
           r == IF by = "PQFE" THEN PQFE_verify_data(h, data, sig, public_key, onMalformed)
                ELSE IF c.exc # "none"
                THEN [exc |-> c.exc, result |-> FALSE, calls |-> <<>>]
                ELSE PQFEVerifier_verify_data(c.self, data, sig, onMalformed)
       IN last' = [Idle EXCEPT !.op = IF by = "PQFE" THEN "verify_data"
                                      ELSE IF made THEN "verifier.verify_data"
                                      ELSE "create_verifier",
                               !.exc = r.exc, !.h = h, !.key = public_key,
                               !.data = data, !.flag = r.result, !.calls = r.calls,
                               !.form = form]
    /\ UNCHANGED <<envelope, encaps, signature, fs, attrs, procs, held, encfile>>

\* The data a verifier is given: the data that was signed, or other data
\* (the signed data without its last byte; a byte, when nothing was signed)
VerifiedData ==
    {signature.D,
     IF signature.D = <<>> THEN <<0>> ELSE Take(signature.D, Len(signature.D) - 1)}

\* The provider has a choice of outcome only on input of the wrong shape
VerifyOutcomes(h, form, public_key) ==
    IF WellFormed(h.dilithium_variant, Damaged(signature.sig, form), public_key)
    THEN {"False"}
    ELSE {"ValueError", "False"}

NextSign ==
    \/ \E h \in SigHandles, D \in Payloads, i \in KeyIds, by \in {"PQFE", "PQFESigner"} :
          SignData(h, D, SecretKey(h.dilithium_variant, i), by, "ValueError")
    \/ \E h \in SigHandles, D \in VerifiedData, f \in SignatureForms,
          k \in SigPublicKeys \cup MalformedKeys, by \in {"PQFE", "PQFEVerifier"} :
          \E o \in VerifyOutcomes(h, f, k) : VerifyData(h, D, f, k, by, o)

SpecSign == Init /\ [][NextSign]_vars

\* ---------------------------------------------------------- file behaviours
FileHandles == {PQFE_init("Kyber512", "Dilithium3", "AES256GCM").self,
                PQFE_init("Kyber768", "Dilithium3", "ChaCha20Poly1305").self}

\* The caller puts a file with content data at "doc"
CreateFile(data) ==
    /\ ~fs["doc"].exists
    /\ fs' = [fs EXCEPT !["doc"] = [exists |-> TRUE, content |-> data, mode |-> 420]]
    /\ last' = [Idle EXCEPT !.op = "create_file", !.data = data]
    /\ UNCHANGED <<envelope, encaps, signature, attrs, procs, held, encfile>>

\* The handle's attribute after a call on h that ended with result r
Kept(h, r) == IF r.attr.set THEN [attrs EXCEPT ![h] = r.attr] ELSE attrs

\* An envelope as a file operation returned it
Returned(r, h, public_key, P) ==
    [NoEnvelope EXCEPT !.has = TRUE, !.encrypted_data = r.encrypted_data,
                       !.ciphertext = r.ciphertext, !.P = P, !.pub = public_key,
                       !.variant = h.variant, !.cipher = h.cipher, !.by = "encrypt_file",
                       !.maker = h, !.root = P]

\* h.encrypt_file("doc", public_key, return_as_data=return_as_data)
EncryptFile(h, public_key, return_as_data) ==
    LET r == PQFE_encrypt_file(h, "doc", public_key, None, None, return_as_data, fs)
    IN /\ last' = [Idle EXCEPT !.op = "encrypt_file", !.exc = r.exc, !.h = h,
                               !.key = public_key, !.calls = r.calls,
                               !.return_as_data = return_as_data]
       /\ fs' = r.files
       /\ attrs' = Kept(h, r)
       /\ envelope' = IF r.exc = "none"
                      THEN Returned(r, h, public_key, fs["doc"].content)
                      ELSE envelope
       /\ UNCHANGED <<encaps, signature, procs, held, encfile>>

\* h.decrypt_file("doc.encrypted", ciphertext, private_key,
\* return_as_data=return_as_data, encrypted_data=encrypted_data) on the
\* envelope the caller holds
DecryptFile(h, private_key, return_as_data) ==
    /\ envelope.has
    /\ LET r == PQFE_decrypt_file(h, "doc.encrypted", envelope.ciphertext, private_key,
                                  None, None, return_as_data, envelope.encrypted_data, fs)
       IN /\ last' = [Idle EXCEPT !.op = "decrypt_file", !.exc = r.exc, !.h = h,
                                  !.key = private_key, !.calls = r.calls,
                                  !.out = r.decrypted_data,
                                  !.return_as_data = return_as_data]
          /\ fs' = r.files
          /\ attrs' = Kept(h, r)
    /\ UNCHANGED <<envelope, encaps, signature, procs, held, encfile>>

\* h.encrypt_and_sign("doc", encryption_public_key, signature_private_key,
\* return_as_data)
EncryptAndSign(h, encryption_public_key, signature_private_key, return_as_data, onMismatch) ==
    LET r == PQFE_encrypt_and_sign(h, "doc", encryption_public_key, signature_private_key,
                                   return_as_data, fs, onMismatch)
    IN /\ last' = [Idle EXCEPT !.op = "encrypt_and_sign", !.exc = r.exc, !.h = h,
                               !.key = encryption_public_key,
                               !.key2 = signature_private_key, !.calls = r.calls,
                               !.return_as_data = return_as_data]
       /\ fs' = r.files
       /\ attrs' = Kept(h, r)
       /\ envelope' = IF r.exc = "none"
                      THEN Returned(r, h, encryption_public_key, fs["doc"].content)
                      ELSE envelope
       /\ signature' = IF r.exc = "none"
                       THEN [has |-> TRUE, sig |-> r.signature[1], D |-> fs["doc"].content,
                             priv |-> signature_private_key, h |-> h,
                             by |-> "encrypt_and_sign"]
                       ELSE signature
       /\ UNCHANGED <<encaps, procs, held, encfile>>

\* h.decrypt_and_verify("doc.encrypted", ciphertext, signature,
\* encryption_private_key, verification_public_key, return_as_data,
\* encrypted_data) on the envelope and the signature the caller holds
DecryptAndVerify(h, encryption_private_key, verification_public_key, return_as_data, onMalformed) ==
    /\ envelope.has
    /\ signature.has
    /\ LET r == PQFE_decrypt_and_verify(h, "doc.encrypted", envelope.ciphertext,
                                        signature.sig, encryption_private_key,
                                        verification_public_key, return_as_data,
                                        envelope.encrypted_data, fs, onMalformed)
       IN /\ last' = [Idle EXCEPT !.op = "decrypt_and_verify", !.exc = r.exc, !.h = h,
                                  !.key = encryption_private_key,
                                  !.key2 = verification_public_key, !.calls = r.calls,
                                  !.flag = r.verified, !.out = r.decrypted_data,
                                  !.return_as_data = return_as_data]
          /\ fs' = r.files
          /\ attrs' = Kept(h, r)
    /\ UNCHANGED <<envelope, encaps, signature, procs, held, encfile>>

\* h.encryptor.encrypt_file("doc", public_key, None, return_as_data): the
\* method of KyberEncryption called as its signature asks
KyberEncryptFile(h, public_key, return_as_data) ==
    LET r == KyberEncryption_encrypt_file(h, <<"doc", public_key, None, return_as_data>>, fs)
    IN /\ last' = [Idle EXCEPT !.op = "kyber.encrypt_file", !.exc = r.exc, !.h = h,
                               !.key = public_key, !.calls = r.calls,
                               !.return_as_data = return_as_data]
       /\ fs' = r.files
       /\ attrs' = Kept(h, r)
       /\ envelope' = IF r.exc = "none"
                      THEN Returned(r, h, public_key, fs["doc"].content)
                      ELSE envelope
       /\ UNCHANGED <<encaps, signature, procs, held, encfile>>

\* h.encryptor.decrypt_file("doc.encrypted", private_key, ciphertext, None,
\* return_as_data) on the envelope the caller holds
KyberDecryptFile(h, private_key, return_as_data) ==
    /\ envelope.has
    /\ LET r == KyberEncryption_decrypt_file(
                    h, <<"doc.encrypted", private_key, envelope.ciphertext, None,
                         return_as_data>>, {}, fs)
       IN /\ last' = [Idle EXCEPT !.op = "kyber.decrypt_file", !.exc = r.exc, !.h = h,
                                  !.key = private_key, !.calls = r.calls,
                                  !.out = r.decrypted_data,
                                  !.return_as_data = return_as_data]
          /\ fs' = r.files
          /\ attrs' = Kept(h, r)
    /\ UNCHANGED <<envelope, encaps, signature, procs, held, encfile>>

\* The envelope and the signature a caller holds for the file are made from
\* its content by encrypt_data and sign_data.
NextFile ==
    \/ \E D \in Payloads : CreateFile(D)
    \/ \E h \in FileHandles, i \in KeyIds :
          fs["doc"].exists /\ EncryptData(h, fs["doc"].content, PublicKey(h.variant, i),
                                          "ValueError")
    \/ \E h \in FileHandles, i \in KeyIds :
          fs["doc"].exists /\ SignData(h, fs["doc"].content,
                                       SecretKey(h.dilithium_variant, i), "PQFE",
                                       "ValueError")
    \/ \E h \in FileHandles, i \in KeyIds, m \in BOOLEAN :
          EncryptFile(h, PublicKey(h.variant, i), m)
    \/ \E h \in FileHandles, i \in KeyIds \cup {0}, m \in BOOLEAN :
          DecryptFile(h, IF i = 0 THEN NoKey ELSE SecretKey(h.variant, i), m)
    \/ \E h \in FileHandles, i \in KeyIds, k \in SigSecretKeys, m \in BOOLEAN :
          EncryptAndSign(h, PublicKey(h.variant, i), k, m, "ValueError")
    \/ \E h \in FileHandles, i \in KeyIds, j \in KeyIds, m \in BOOLEAN :
          DecryptAndVerify(h, SecretKey(h.variant, i), PublicKey(h.dilithium_variant, j),
                           m, "False")

SpecFile == Init /\ [][NextFile]_vars

\* Calls of encrypt_file and decrypt_file on the handles, through PQFE and on
\* its KyberEncryption, in every order
NextHandle ==
    \/ \E D \in Payloads : CreateFile(D)
    \/ \E h \in FileHandles, i \in KeyIds :
          fs["doc"].exists /\ EncryptData(h, fs["doc"].content, PublicKey(h.variant, i),
                                          "ValueError")
    \/ \E h \in FileHandles, i \in KeyIds, m \in BOOLEAN :
          EncryptFile(h, PublicKey(h.variant, i), m)
    \/ \E h \in FileHandles, i \in KeyIds \cup {0}, m \in BOOLEAN :
          DecryptFile(h, IF i = 0 THEN NoKey ELSE SecretKey(h.variant, i), m)
    \/ \E h \in FileHandles, i \in KeyIds, m \in BOOLEAN :
          KyberEncryptFile(h, PublicKey(h.variant, i), m)
    \/ \E h \in FileHandles, i \in KeyIds, m \in BOOLEAN :
          KyberDecryptFile(h, SecretKey(h.variant, i), m)

SpecHandle == Init /\ [][NextHandle]_vars

\* -------------------------------------------------------- cipher behaviours
\* Key lengths a caller may hand to a cipher: none, too short, one short,
\* exact, and longer than the 32 bytes the ciphers use
KeyLens == {0, 16, 31, 32, 33, 64}
SymKeys == {SymKey(i, n) : i \in KeyIds, n \in KeyLens}

Ciphers == {"AES256GCMCipher", "ChaCha20Poly1305Cipher"}
CipherOps == {"cipher.encrypt", "cipher.decrypt"}

\* The blob as it reaches decrypt: intact, with a bit of byte n changed, or
\* cut to its first n bytes
Mangled(blob, form, n) ==
    CASE form = "flip" -> FlipBit(blob, n)
      [] form = "truncated" -> Take(blob, n)
      [] OTHER -> blob

\* Bytes of a blob worth changing (first and last of nonce; first and last of
\* ciphertext and tag) and lengths worth cutting it to
FlipPositions(blob) == {1, 12, 13, Len(blob)}
CutLengths(blob) == {0, 7, 8, 11, 12, 27, Len(blob) - 1}

\* get_cipher_instance(cipher_name)
GetCipherInstance(cipher_name) ==
    LET r == get_cipher_instance(cipher_name)
    IN /\ last' = [Idle EXCEPT !.op = "get_cipher_instance", !.exc = r.exc,
                               !.h = [NoHandle EXCEPT !.cipher_name = cipher_name,
                                                      !.cipher = r.cipher]]
       /\ UNCHANGED <<envelope, encaps, signature, fs, attrs, procs, held, encfile>>

\* cipher.encrypt(data, key); encaps counts the nonces drawn
CipherEncrypt(cipher, data, key) ==
    /\ ~envelope.has
    /\ encaps < MaxEncaps
    /\ LET r == cipher_encrypt(cipher, data, key, encaps + 1)
           drawn == Count(r.calls, "urandom")
       IN /\ last' = [Idle EXCEPT !.op = "cipher.encrypt", !.exc = r.exc,
                                  !.h = [NoHandle EXCEPT !.cipher = cipher],
                                  !.symkey = key, !.data = data, !.calls = r.calls]
          /\ envelope' = IF r.exc # "none" THEN envelope
                         ELSE [NoEnvelope EXCEPT !.has = TRUE, !.encrypted_data = r.out,
                                                 !.P = data, !.cipher = cipher,
                                                 !.symkey = key, !.by = "cipher"]
          /\ encaps' = encaps + drawn
    /\ UNCHANGED <<signature, fs, attrs, procs, held, encfile>>

\* cipher.decrypt(blob, key) on the blob held, as it reaches decrypt
CipherDecrypt(cipher, key, form, n) ==
    /\ envelope.has
    /\ LET r == cipher_decrypt(cipher, Mangled(envelope.encrypted_data, form, n), key)
       IN last' = [Idle EXCEPT !.op = "cipher.decrypt", !.exc = r.exc,
                               !.h = [NoHandle EXCEPT !.cipher = cipher],
                               !.symkey = key, !.out = r.out, !.calls = r.calls,
                               !.form = form, !.tamper = n]
    /\ UNCHANGED <<envelope, encaps, signature, fs, attrs, procs, held, encfile>>

NextCipher ==
    \/ \E name \in CipherNames : GetCipherInstance(name)
    \/ \E c \in Ciphers, D \in Payloads, k \in SymKeys : CipherEncrypt(c, D, k)
    \/ \E k \in SymKeys : CipherDecrypt(envelope.cipher, k, "ok", 0)
    \/ \E n \in FlipPositions(envelope.encrypted_data) :
          CipherDecrypt(envelope.cipher, envelope.symkey, "flip", n)
    \/ \E n \in CutLengths(envelope.encrypted_data), k \in SymKeys :
          k.id = envelope.symkey.id /\ CipherDecrypt(envelope.cipher, k, "truncated", n)

SpecCipher == Init /\ [][NextCipher]_vars

\* ----------------------------------------------------- key store behaviours
\* The facade whose key directory is modelled
KeyHandle == PQFE_init("Kyber512", "Dilithium3", "AES256GCM").self

\* key_type arguments: the two purposes and a string that is neither
KeyTypeArgs == KeyTypes \cup {"kem"}

\* The variant whose key pairs callers store under a key_type
StoredVariant(key_type) ==
    IF key_type = "signature" THEN KeyHandle.dilithium_variant ELSE KeyHandle.variant

\* How many of the two files of key_type exist
Existing(key_type, files) ==
    (IF files[KeyPaths(key_type).pub].exists THEN 1 ELSE 0)
    + (IF files[KeyPaths(key_type).priv].exists THEN 1 ELSE 0)

SaveKeys(public_key, private_key, key_type, umask, chmod) ==
    /\ fs' = save_keys(public_key, private_key, key_type, fs, umask, chmod)
    /\ last' = [Idle EXCEPT !.op = "save_keys", !.key = public_key, !.key2 = private_key,
                            !.key_type = key_type, !.had = Existing(key_type, fs),
                            !.form = chmod]
    /\ UNCHANGED <<envelope, encaps, signature, attrs, procs, held, encfile>>

GenerateEncryptionKeys(h, i, umask, chmod) ==
    LET r == PQFE_generate_encryption_keys(h, i, fs, umask, chmod)
    IN /\ fs' = r.files
       /\ last' = [Idle EXCEPT !.op = "generate_encryption_keys", !.h = h,
                               !.key = r.public_key, !.key2 = r.private_key,
                               !.key_type = "encryption",
                               !.had = Existing("encryption", fs), !.form = chmod]
       /\ UNCHANGED <<envelope, encaps, signature, attrs, procs, held, encfile>>

GenerateSignatureKeys(h, i, umask, chmod) ==
    LET r == PQFE_generate_signature_keys(h, i, fs, umask, chmod)
    IN /\ fs' = r.files
       /\ last' = [Idle EXCEPT !.op = "generate_signature_keys", !.h = h,
                               !.key = r.public_key, !.key2 = r.private_key,
                               !.key_type = "signature",
                               !.had = Existing("signature", fs), !.form = chmod]
       /\ UNCHANGED <<envelope, encaps, signature, attrs, procs, held, encfile>>

LoadKeys(key_type) ==
    LET r == load_keys(key_type, fs)
    IN /\ last' = [Idle EXCEPT !.op = "load_keys", !.exc = r.exc, !.key = r.public_key,
                               !.key2 = r.private_key, !.key_type = key_type,
                               !.had = Existing(key_type, fs)]
       /\ UNCHANGED <<envelope, encaps, signature, fs, attrs, procs, held, encfile>>

LoadEncryptionKeys(h) ==
    LET r == PQFE_load_encryption_keys(h, fs)
    IN /\ last' = [Idle EXCEPT !.op = "load_encryption_keys", !.h = h, !.exc = r.exc,
                               !.key = r.public_key, !.key2 = r.private_key,
                               !.key_type = "encryption",
                               !.had = Existing("encryption", fs)]
       /\ UNCHANGED <<envelope, encaps, signature, fs, attrs, procs, held, encfile>>

LoadSignatureKeys(h) ==
    LET r == PQFE_load_signature_keys(h, fs)
    IN /\ last' = [Idle EXCEPT !.op = "load_signature_keys", !.h = h, !.exc = r.exc,
                               !.key = r.public_key, !.key2 = r.private_key,
                               !.key_type = "signature",
                               !.had = Existing("signature", fs)]
       /\ UNCHANGED <<envelope, encaps, signature, fs, attrs, procs, held, encfile>>

DeleteKeys(key_type) ==
    LET r == delete_keys(key_type, fs)
    IN /\ fs' = r.files
       /\ last' = [Idle EXCEPT !.op = "delete_keys", !.flag = r.deleted,
                               !.key_type = key_type, !.had = Existing(key_type, fs)]
       /\ UNCHANGED <<envelope, encaps, signature, attrs, procs, held, encfile>>

\* Outside the library, one key file is removed
RemoveFile(path) ==
    /\ fs[path].exists
    /\ fs' = [fs EXCEPT ![path] = NoFile]
    /\ last' = [Idle EXCEPT !.op = "remove"]
    /\ UNCHANGED <<envelope, encaps, signature, attrs, procs, held, encfile>>

\* Outside the library, the key directory is removed with what it holds
RemoveDirectory ==
    /\ fs[KeyDirectory].exists
    /\ fs' = [p \in Paths |-> IF p \in KeyFiles \cup {KeyDirectory} THEN NoFile ELSE fs[p]]
    /\ last' = [Idle EXCEPT !.op = "rmtree"]
    /\ UNCHANGED <<envelope, encaps, signature, attrs, procs, held, encfile>>

NextKeys ==
    \/ \E t \in KeyTypeArgs, i \in KeyIds, j \in KeyIds, u \in Umasks, c \in ChmodOutcomes :
          SaveKeys(PublicKey(StoredVariant(t), i), SecretKey(StoredVariant(t), j), t, u, c)
    \/ \E i \in KeyIds, u \in Umasks, c \in ChmodOutcomes :
          GenerateEncryptionKeys(KeyHandle, i, u, c)
    \/ \E i \in KeyIds, u \in Umasks, c \in ChmodOutcomes :
          GenerateSignatureKeys(KeyHandle, i, u, c)
    \/ \E t \in KeyTypeArgs : LoadKeys(t)
    \/ LoadEncryptionKeys(KeyHandle)
    \/ LoadSignatureKeys(KeyHandle)
    \/ \E t \in KeyTypeArgs : DeleteKeys(t)
    \/ \E p \in KeyFiles : RemoveFile(p)
    \/ RemoveDirectory

SpecKeys == Init /\ [][NextKeys]_vars

\* ------------------------------------------ key store, statement by statement
\* What f.read() returns for a key file: its key, or no bytes while the file
\* is open for writing and still empty
EmptyBytes == [variant |-> "none", id |-> 0, part |-> "none", form |-> "empty"]
ReadKey(file) == IF file.content = <<>> THEN EmptyBytes ELSE file.content[1]

\* The purpose the concurrent callers share
StoreTypes == {"encryption"}

\* Caller p enters save_keys with a key pair of the purpose's variant
CallSaveKeys(p, public_key, private_key, key_type) ==
    /\ procs.save[p].pc = "idle"
    /\ procs' = [procs EXCEPT !.save[p] = [pc |-> "mkdir", public_key |-> public_key,
                                           private_key |-> private_key,
                                           key_type |-> key_type],
                              !.passed = @ \cup {<<public_key, private_key>>}]
    /\ UNCHANGED <<envelope, last, encaps, signature, fs, attrs, held, encfile>>

\* line 24
SaveMkdir(p, umask) ==
    /\ procs.save[p].pc = "mkdir"
    /\ fs' = mkdir(KeyDirectory, fs, umask)
    /\ procs' = [procs EXCEPT !.save[p].pc = "open_pub"]
    /\ UNCHANGED <<envelope, last, encaps, signature, attrs, held, encfile>>

\* line 35
SaveOpenPub(p, umask) ==
    /\ procs.save[p].pc = "open_pub"
    /\ fs' = open_wb(KeyPaths(procs.save[p].key_type).pub, fs, umask)
    /\ procs' = [procs EXCEPT !.save[p].pc = "write_pub"]
    /\ UNCHANGED <<envelope, last, encaps, signature, attrs, held, encfile>>

\* line 36
SaveWritePub(p) ==
    /\ procs.save[p].pc = "write_pub"
    /\ fs' = write_key(KeyPaths(procs.save[p].key_type).pub, procs.save[p].public_key, fs)
    /\ procs' = [procs EXCEPT !.save[p].pc = "open_priv"]
    /\ UNCHANGED <<envelope, last, encaps, signature, attrs, held, encfile>>

\* line 39
SaveOpenPriv(p, umask) ==
    /\ procs.save[p].pc = "open_priv"
    /\ fs' = open_wb(KeyPaths(procs.save[p].key_type).priv, fs, umask)
    /\ procs' = [procs EXCEPT !.save[p].pc = "write_priv"]
    /\ UNCHANGED <<envelope, last, encaps, signature, attrs, held, encfile>>

\* line 40
SaveWritePriv(p) ==
    /\ procs.save[p].pc = "write_priv"
    /\ fs' = write_key(KeyPaths(procs.save[p].key_type).priv, procs.save[p].private_key, fs)
    /\ procs' = [procs EXCEPT !.save[p].pc = "chmod"]
    /\ UNCHANGED <<envelope, last, encaps, signature, attrs, held, encfile>>

\* lines 42-46, and the return
SaveChmod(p, chmod) ==
    /\ procs.save[p].pc = "chmod"
    /\ fs' = chmod_private_key(KeyPaths(procs.save[p].key_type).priv, fs, chmod)
    /\ procs' = [procs EXCEPT !.save[p] = NoSave,
                              !.chmod_raised = @ \/ chmod = "raises"]
    /\ UNCHANGED <<envelope, last, encaps, signature, attrs, held, encfile>>

\* The loading caller enters load_keys
CallLoadKeys(key_type) ==
    /\ procs.load.pc = "idle"
    /\ procs' = [procs EXCEPT !.load = [NoLoad EXCEPT !.pc = "exists", !.key_type = key_type]]
    /\ UNCHANGED <<envelope, last, encaps, signature, fs, attrs, held, encfile>>

\* lines 70-71: return None, None unless both paths exist
LoadExists ==
    /\ procs.load.pc = "exists"
    /\ LET paths == KeyPaths(procs.load.key_type)
       IN IF ~fs[paths.pub].exists \/ ~fs[paths.priv].exists
          THEN /\ last' = [Idle EXCEPT !.op = "load_keys", !.key_type = procs.load.key_type]
               /\ procs' = [procs EXCEPT !.load = NoLoad]
          ELSE /\ last' = last
               /\ procs' = [procs EXCEPT !.load.pc = "read_pub"]
    /\ UNCHANGED <<envelope, encaps, signature, fs, attrs, held, encfile>>

\* lines 73-74
LoadReadPub ==
    /\ procs.load.pc = "read_pub"
    /\ procs' = [procs EXCEPT !.load.pc = "read_priv",
                              !.load.public_key = ReadKey(fs[KeyPaths(procs.load.key_type).pub])]
    /\ UNCHANGED <<envelope, last, encaps, signature, fs, attrs, held, encfile>>

\* lines 76-79
LoadReadPriv ==
    /\ procs.load.pc = "read_priv"
    /\ last' = [Idle EXCEPT !.op = "load_keys", !.key_type = procs.load.key_type,
                            !.key = procs.load.public_key,
                            !.key2 = ReadKey(fs[KeyPaths(procs.load.key_type).priv])]
    /\ procs' = [procs EXCEPT !.load = NoLoad]
    /\ UNCHANGED <<envelope, encaps, signature, fs, attrs, held, encfile>>

NextStore ==
    \/ \E p \in Savers, t \in StoreTypes, i \in KeyIds :
          CallSaveKeys(p, PublicKey(StoredVariant(t), i), SecretKey(StoredVariant(t), i), t)
    \/ \E p \in Savers, u \in Umasks : SaveMkdir(p, u)
    \/ \E p \in Savers, u \in Umasks : SaveOpenPub(p, u)
    \/ \E p \in Savers : SaveWritePub(p)
    \/ \E p \in Savers, u \in Umasks : SaveOpenPriv(p, u)
    \/ \E p \in Savers : SaveWritePriv(p)
    \/ \E p \in Savers, c \in ChmodOutcomes : SaveChmod(p, c)
    \/ \E t \in StoreTypes : CallLoadKeys(t)
    \/ LoadExists
    \/ LoadReadPub
    \/ LoadReadPriv

SpecStore == Init /\ [][NextStore]_vars

\* ------------------------------------------------ role-scoped handle behaviours
\* Key arguments: a key of each kind, and values that are not ten bytes
BadKey(form) == [variant |-> "none", id |-> 0, part |-> "none", form |-> form]
FacadeKeys ==
    {PublicKey("Kyber512", 1), PublicKey("BIKE-L1", 1), PublicKey("Dilithium3", 1),
     SecretKey("Dilithium3", 1)}
    \cup {BadKey(f) : f \in {"empty", "short", "notbytes"}}

\* Variant and cipher arguments: one the library supports, one only the
\* provider knows, one nobody knows
FacadeKemVariants == {"Kyber512", "BIKE-L1", "Kyber2048"}
FacadeSigVariants == {"Dilithium3", "Falcon-512", "Dilithium9"}
FacadeCiphers == {"AES256GCM", "ChaCha20Poly1305", "AES128GCM"}
FacadeClasses == {"PQFEEncryptor", "PQFESigner", "PQFEVerifier"}

\* PQFEEncryptor(public_key, variant, cipher)
ConstructEncryptor(public_key, variant, cipher) ==
    LET r == PQFEEncryptor_init(public_key, variant, cipher)
    IN /\ held = NoHeld
       /\ last' = [Idle EXCEPT !.op = "PQFEEncryptor", !.exc = r.exc, !.key = public_key,
                               !.calls = r.calls,
                               !.h = [NoHandle EXCEPT !.variant = variant,
                                                      !.cipher_name = cipher]]
       /\ held' = IF r.exc # "none" THEN NoHeld
                  ELSE [class |-> "PQFEEncryptor", key |-> r.self.public_key,
                        variant |-> r.self.variant, cipher |-> r.self.cipher]
       /\ UNCHANGED <<envelope, encaps, signature, fs, attrs, procs, encfile>>

\* PQFESigner(private_key, variant)
ConstructSigner(private_key, variant) ==
    LET r == PQFESigner_init(private_key, variant)
    IN /\ held = NoHeld
       /\ last' = [Idle EXCEPT !.op = "PQFESigner", !.exc = r.exc, !.key = private_key,
                               !.calls = r.calls,
                               !.h = [NoHandle EXCEPT !.dilithium_variant = variant]]
       /\ held' = IF r.exc # "none" THEN NoHeld
                  ELSE [class |-> "PQFESigner", key |-> r.self.key,
                        variant |-> r.self.variant, cipher |-> "none"]
       /\ UNCHANGED <<envelope, encaps, signature, fs, attrs, procs, encfile>>

\* PQFEVerifier(public_key, variant)
ConstructVerifier(public_key, variant) ==
    LET r == PQFEVerifier_init(public_key, variant)
    IN /\ held = NoHeld
       /\ last' = [Idle EXCEPT !.op = "PQFEVerifier", !.exc = r.exc, !.key = public_key,
                               !.calls = r.calls,
                               !.h = [NoHandle EXCEPT !.dilithium_variant = variant]]
       /\ held' = IF r.exc # "none" THEN NoHeld
                  ELSE [class |-> "PQFEVerifier", key |-> r.self.key,
                        variant |-> r.self.variant, cipher |-> "none"]
       /\ UNCHANGED <<envelope, encaps, signature, fs, attrs, procs, encfile>>

\* Method names a caller may try on a handle
MethodNames == {"encrypt_data", "encrypt_file", "decrypt_data", "decrypt_file",
                "sign_data", "sign_file", "verify_data", "verify_file"}

\* (mutant) an encryptor that also has decrypt_data
Methods_with_decrypt(class) ==
    IF class = "PQFEEncryptor" THEN {"encrypt_data", "encrypt_file", "decrypt_data"}
    ELSE IF class = "PQFESigner" THEN {"sign_data", "sign_file"}
    ELSE IF class = "PQFEVerifier" THEN {"verify_data", "verify_file"}
    ELSE {}

\* The methods each class defines
Methods(class) ==
    IF class = "PQFEEncryptor" THEN {"encrypt_data", "encrypt_file"}
    ELSE IF class = "PQFESigner" THEN {"sign_data", "sign_file"}
    ELSE IF class = "PQFEVerifier" THEN {"verify_data", "verify_file"}
    ELSE {}

\* What a call on a handle comes to: the exception, the provider calls and
\* the kind of value returned
NoCallResult == [exc |-> "none", calls |-> <<>>, returns |-> "none"]

\* self.name(...) on the handle self: AttributeError for a method the class
\* does not define, the method otherwise
HeldCall(self, name, data, sig, return_as_data, files, fresh, onMismatch, onMalformed) ==
    LET enc == [public_key |-> self.key, variant |-> self.variant, cipher |-> self.cipher]
        dil == [key |-> self.key, variant |-> self.variant, dilithium_variant |-> self.variant]
        kyb == [NoHandle EXCEPT !.variant = self.variant, !.cipher = self.cipher]
        done(r, kind) == [exc |-> r.exc, calls |-> r.calls,
                          returns |-> IF r.exc = "none" THEN kind ELSE "none"]
    IN IF name \notin Methods(self.class)
       THEN [NoCallResult EXCEPT !.exc = "AttributeError"]
       ELSE IF name = "encrypt_data"
       THEN done(PQFEEncryptor_encrypt_data(enc, data, fresh, onMismatch), "envelope")
       ELSE IF name = "encrypt_file"
       THEN done(PQFEEncryptor_encrypt_file(enc, "doc", return_as_data, files, fresh, onMismatch), "envelope")
       ELSE IF name = "sign_data"
       THEN done(PQFESigner_sign_data(dil, data, onMismatch), "signature")
       ELSE IF name = "sign_file"
       THEN done(PQFESigner_sign_file(dil, "doc", files, onMismatch), "signature")
       ELSE IF name = "verify_data"
       THEN done(PQFEVerifier_verify_data(dil, data, sig, onMalformed), "bool")
       ELSE IF name = "verify_file"
       THEN done(PQFEVerifier_verify_file(dil, "doc", sig, files, onMalformed), "bool")
       ELSE done(PQFE_decrypt_data(kyb, <<>>, NoCiphertext, self.key, onMismatch), "plaintext")

\* Signatures a caller hands to a verifier: one made by the secret key of
\* PublicKey("Dilithium3", 1) over data, and no signature at all
FacadeSignatures(data) ==
    {sig_sign("Dilithium3", SecretKey("Dilithium3", 1), sha3_384(data), "ValueError").signature,
     NoSignature}

\* The arguments and provider outcomes that matter to each method
DataArgs(name) ==
    IF name \in {"encrypt_data", "sign_data", "verify_data"} THEN Payloads ELSE {<<>>}
SignatureArgs(name) ==
    IF name \in {"verify_data", "verify_file"} THEN FacadeSignatures(<<1>>) ELSE {NoSignature}
FlagArgs(name) == IF name = "encrypt_file" THEN BOOLEAN ELSE {FALSE}
MismatchOutcomes(name) ==
    IF name \in {"verify_data", "verify_file"} THEN {"ValueError"} ELSE ProviderOutcomes
MalformedOutcomes(name) ==
    IF name \in {"verify_data", "verify_file"} THEN {"ValueError", "False"} ELSE {"False"}

\* The caller calls a method on the handle held
CallHeld(name, data, sig, return_as_data, onMismatch, onMalformed) ==
    /\ held.class # "none"
    /\ encaps < MaxEncaps
    /\ LET r == HeldCall(held, name, data, sig, return_as_data, fs, encaps + 1,
                         onMismatch, onMalformed)
       IN /\ last' = [Idle EXCEPT !.op = name, !.exc = r.exc, !.calls = r.calls,
                                  !.form = r.returns, !.data = data,
                                  !.return_as_data = return_as_data]
          /\ encaps' = encaps + Count(r.calls, "urandom")
    /\ UNCHANGED <<envelope, signature, fs, attrs, procs, held, encfile>>

NextFacade ==
    \/ \E k \in FacadeKeys, v \in FacadeKemVariants, c \in FacadeCiphers :
          ConstructEncryptor(k, v, c)
    \/ \E k \in FacadeKeys, v \in FacadeSigVariants : ConstructSigner(k, v)
    \/ \E k \in FacadeKeys, v \in FacadeSigVariants : ConstructVerifier(k, v)
    \/ \E data \in Payloads : CreateFile(data)
    \/ \E name \in MethodNames :
          \E data \in DataArgs(name), sig \in SignatureArgs(name), b \in FlagArgs(name),
             onMismatch \in MismatchOutcomes(name), onMalformed \in MalformedOutcomes(name) :
             CallHeld(name, data, sig, b, onMismatch, onMalformed)

SpecFacade == Init /\ [][NextFacade]_vars

\* ------------------------------------------------- calls without a private key
\* h.sign_file("doc", private_key)
SignFile(h, private_key, onMismatch) ==
    /\ ~signature.has
    /\ LET r == PQFE_sign_file(h, "doc", private_key, fs, onMismatch)
       IN /\ last' = [Idle EXCEPT !.op = "sign_file", !.exc = r.exc, !.h = h,
                                  !.key = private_key, !.calls = r.calls]
          /\ signature' = IF r.exc # "none" THEN signature
                          ELSE [has |-> TRUE, sig |-> r.signature, D |-> fs["doc"].content,
                                priv |-> private_key, h |-> h, by |-> "sign_file"]
    /\ UNCHANGED <<envelope, encaps, fs, attrs, procs, held, encfile>>

\* A private key argument: None, or the first secret key of the variant
PrivateKeyArgs(variant) == {NoKey, SecretKey(variant, 1)}

\* The decrypt and sign operations of PQFE, each called with its private key
\* or with None in its place
NextNoKey ==
    \/ \E D \in Payloads : CreateFile(D)
    \/ \E h \in FileHandles :
          fs["doc"].exists /\ EncryptData(h, fs["doc"].content, PublicKey(h.variant, 1),
                                          "ValueError")
    \/ \E h \in FileHandles : \E k \in PrivateKeyArgs(h.dilithium_variant),
          o \in ProviderOutcomes :
          fs["doc"].exists /\ SignData(h, fs["doc"].content, k, "PQFE", o)
    \/ \E h \in FileHandles : \E k \in PrivateKeyArgs(h.dilithium_variant),
          o \in ProviderOutcomes : SignFile(h, k, o)
    \/ \E h \in FileHandles : \E k \in PrivateKeyArgs(h.variant), o \in ProviderOutcomes :
          DecryptData(h, k, 0, o)
    \/ \E h \in FileHandles : \E k \in PrivateKeyArgs(h.variant), m \in BOOLEAN :
          DecryptFile(h, k, m)
    \/ \E h \in FileHandles : \E k \in PrivateKeyArgs(h.dilithium_variant), m \in BOOLEAN,
          o \in ProviderOutcomes :
          EncryptAndSign(h, PublicKey(h.variant, 1), k, m, o)
    \/ \E h \in FileHandles : \E k \in PrivateKeyArgs(h.variant), m \in BOOLEAN :
          DecryptAndVerify(h, k, PublicKey(h.dilithium_variant, 1), m, "False")

SpecNoKey == Init /\ [][NextNoKey]_vars

\* ------------------------------------------- envelope file, written and read
\* write_encrypted_file("doc", encrypted_content, ciphertext, metadata)
WriteEncryptedFile(encrypted_content, ciphertext, metadata) ==
    /\ ~encfile.written
    /\ LET w == write_encrypted_file("doc", encrypted_content, ciphertext, metadata)
       IN encfile' = [written |-> TRUE, path |-> w.path, bytes |-> w.bytes,
                      encrypted_content |-> encrypted_content, ciphertext |-> ciphertext,
                      metadata |-> metadata, read |-> NoRead]
    /\ UNCHANGED <<envelope, last, encaps, signature, fs, attrs, procs, held>>

\* read_encrypted_file of the path write_encrypted_file returned
ReadEncryptedFile ==
    /\ encfile.written
    /\ ~encfile.read.done
    /\ encfile' = [encfile EXCEPT !.read = read_encrypted_file(encfile.bytes)]
    /\ UNCHANGED <<envelope, last, encaps, signature, fs, attrs, procs, held>>

NextEnvelopeFile ==
    \/ \E c \in FileContents, k \in FileContents, m \in Metadatas :
          WriteEncryptedFile(c, k, m)
    \/ ReadEncryptedFile

SpecEnvelopeFile == Init /\ [][NextEnvelopeFile]_vars

\* ------------------------------------------------- decryptions that fail
\* The caller keeps the envelope's encrypted content in the file
\* "doc.encrypted", the encrypted_file argument of the decrypt calls
StoreEnvelope ==
    /\ envelope.has
    /\ ~fs["doc.encrypted"].exists
    /\ fs' = [fs EXCEPT !["doc.encrypted"] =
                            [exists |-> TRUE, content |-> envelope.encrypted_data,
                             mode |-> 420]]
    /\ last' = [Idle EXCEPT !.op = "store_envelope"]
    /\ UNCHANGED <<envelope, encaps, signature, attrs, procs, held, encfile>>

\* The file decryptions of PQFE and of its KyberEncryption
FileDecryptOps == {"decrypt_file", "decrypt_and_verify", "kyber.decrypt_file"}

\* File decryptions of a stored envelope, with the recipient's private key
\* and with others
NextFailedDecrypt ==
    \/ \E D \in Payloads : CreateFile(D)
    \/ \E h \in FileHandles :
          fs["doc"].exists /\ EncryptData(h, fs["doc"].content, PublicKey(h.variant, 1),
                                          "ValueError")
    \/ \E h \in FileHandles :
          fs["doc"].exists /\ SignData(h, fs["doc"].content,
                                       SecretKey(h.dilithium_variant, 1), "PQFE",
                                       "ValueError")
    \/ StoreEnvelope
    \/ \E h \in FileHandles, i \in KeyIds, m \in BOOLEAN :
          DecryptFile(h, SecretKey(h.variant, i), m)
    \/ \E h \in FileHandles, i \in KeyIds, m \in BOOLEAN :
          KyberDecryptFile(h, SecretKey(h.variant, i), m)
    \/ \E h \in FileHandles, i \in KeyIds, m \in BOOLEAN :
          DecryptAndVerify(h, SecretKey(h.variant, i), PublicKey(h.dilithium_variant, 1),
                           m, "False")

SpecFailedDecrypt == Init /\ [][NextFailedDecrypt]_vars

\* ------------------------------------------------------------------ claims
\* last is a decrypt_data of the held envelope, as produced, with the private
\* key matching the public key it was encrypted for, on a handle with the
\* variant and cipher it was encrypted with
MatchingDecrypt ==
    /\ last.op = "decrypt_data"
    /\ last.tamper = 0
    /\ Matches(envelope.pub, last.key)
    /\ SameConfig(last.h)

\* C1: in-memory round trip.  decrypt_data of an envelope that encrypt_data
\* (of a PQFE or of a PQFEEncryptor) produced, with the matching private key
\* on a handle of the same variant and cipher, returns the payload encrypted.
C1_RoundTrip ==
    MatchingDecrypt => /\ last.exc = "none"
                       /\ last.data = envelope.P

C1_Witness ==
    /\ MatchingDecrypt
    /\ envelope.by = "PQFEEncryptor"
    /\ envelope.cipher = "AES256GCMCipher"
    /\ envelope.P = <<>>
    /\ last.exc = "none"
    /\ last.data = <<>>

\* C2: tamper detection.  With one bit of the AEAD blob changed, decryption
\* with the matching private key fails with the AEAD's authentication error;
\* and no decryption at all returns a plaintext other than the one encrypted.
C2_TamperDetected ==
    last.op = "decrypt_data" =>
        /\ last.tamper # 0 => last.exc = "InvalidTag"
        /\ last.exc = "none" => last.data = envelope.P

C2_Witness ==
    /\ last.op = "decrypt_data"
    /\ Len(envelope.P) = 1
    /\ last.tamper = 13
    /\ Matches(envelope.pub, last.key)
    /\ last.exc = "InvalidTag"

\* C3: cross-variant rejection.  decrypt_data on a handle whose KEM variant
\* is not the one the envelope was produced under never returns: it raises
\* the provider's error or fails the AEAD authentication.
C3_CrossVariantRejected ==
    (last.op = "decrypt_data" /\ last.h.variant # envelope.variant) =>
        last.exc \in {"ValueError", "InvalidTag"}

C3_Witness ==
    /\ last.op = "decrypt_data"
    /\ last.h.variant # envelope.variant
    /\ last.key.variant = envelope.variant
    /\ last.key.id = envelope.pub.id
    /\ last.exc = "InvalidTag"

\* C10: multi-recipient re-encryption.  An encryptor has the variant and the
\* cipher of the handle that created it; every envelope is sealed under the
\* secret of the one encapsulation its own encrypt call made (the newest one,
\* never that of an earlier call); and each recipient's matching decrypt_data
\* of a re-encrypted envelope returns the root plaintext.
C10_ReEncryption ==
    /\ envelope.by = "PQFEEncryptor" =>
          /\ envelope.variant = envelope.maker.variant
          /\ envelope.cipher = envelope.maker.cipher
    /\ envelope.has =>
          /\ envelope.ciphertext.sid = encaps
          /\ \A i \in 13..Len(envelope.encrypted_data) :
                envelope.encrypted_data[i].key = encaps
    /\ last.op = "encryptor.encrypt_data" => Count(last.calls, "encap_secret") = 1
    /\ (MatchingDecrypt /\ envelope.gen >= 1) =>
          /\ last.exc = "none"
          /\ last.data = envelope.root

C10_Witness ==
    /\ MatchingDecrypt
    /\ envelope.gen = 2
    /\ Cardinality(envelope.rcpts) = 2
    /\ envelope.cipher = "ChaCha20Poly1305Cipher"
    /\ last.exc = "none"
    /\ last.data = envelope.root

\* last is a verification of the held signature, as made, over the data that
\* was signed, on a handle of the signer's variant
IntactVerify ==
    /\ last.op \in VerifyOps
    /\ last.form = "ok"
    /\ last.data = signature.D
    /\ last.h.dilithium_variant = signature.h.dilithium_variant

\* C4: sign/verify correctness.  The signature of D verifies over D exactly
\* under the public key of the keypair that signed: True for it, False for
\* the public key of any other keypair; and what is signed is the SHA3-384
\* digest of D, whatever the length of D.
C4_SignVerify ==
    /\ IntactVerify => last.flag = Matches(last.key, signature.priv)
    /\ signature.has => signature.sig.msg = sha3_384(signature.D)
    /\ last.op \in VerifyOps \cup {"sign_data", "signer.sign_data"} =>
          last.calls[1] = "sha3_384"

C4_Witness ==
    /\ IntactVerify
    /\ last.op = "verifier.verify_data"
    /\ Len(signature.D) = 1
    /\ Matches(last.key, signature.priv)
    /\ last.flag = TRUE

\* C5: verification never raises.  verify_data of PQFE and of PQFEVerifier
\* returns a boolean for every data, signature and public key; an error of
\* the provider is absorbed and reported as False, and so is every signature
\* that is not intact.
C5_VerifyNeverRaises ==
    last.op \in VerifyOps =>
        /\ last.exc = "none"
        /\ last.flag \in BOOLEAN
        /\ last.form # "ok" => last.flag = FALSE
        /\ last.key \in MalformedKeys => last.flag = FALSE

C5_Witness ==
    /\ last.op = "verify_data"
    /\ last.form = "truncated"
    /\ last.key \in MalformedKeys
    /\ last.calls = <<"sha3_384", "sig_verify", "except">>
    /\ last.exc = "none"
    /\ last.flag = FALSE

\* The caller holds an envelope and a signature made from the content of the
\* file, and last is a call of op on the handle that made the envelope with
\* the private key of the envelope's recipient
MatchingFileCall(op) ==
    /\ last.op = op
    /\ envelope.has /\ envelope.P = fs["doc"].content
    /\ last.h = envelope.maker
    /\ Matches(envelope.pub, last.key)

\* C6: encrypt_and_sign then decrypt_and_verify round trip.  decrypt_and_verify
\* on the envelope and the signature of a file's content, with the matching
\* decryption private key and the matching verification public key, returns
\* verified = True and, in memory, a payload equal to the file's content.
C6_SignedRoundTrip ==
    ( /\ MatchingFileCall("decrypt_and_verify")
      /\ signature.has /\ signature.D = envelope.P
      /\ Matches(last.key2, signature.priv) )
    => /\ last.exc = "none"
       /\ last.flag = TRUE
       /\ last.return_as_data => last.out = envelope.P

\* C7: decrypt_and_verify decrypts first and verifies after; with a
\* verification public key that is not the signer's it still returns the
\* payload unchanged, with verified = False.
C7_PayloadDespiteFailedVerify ==
    ( /\ MatchingFileCall("decrypt_and_verify")
      /\ Len(envelope.P) > 0
      /\ signature.has /\ signature.D = envelope.P
      /\ ~Matches(last.key2, signature.priv) )
    => /\ last.exc = "none"
       /\ last.flag = FALSE
       /\ last.calls = <<"decrypt_file", "verify_data">>
       /\ last.return_as_data => last.out = envelope.P

\* C8: sign-then-encrypt ordering.  encrypt_and_sign signs the content of the
\* file before it runs the encryption and returns a signature that verifies
\* over the plaintext; when signing fails nothing is encrypted and no file is
\* written.
C8_SignThenEncrypt ==
    last.op = "encrypt_and_sign" =>
        /\ last.calls # <<>> /\ last.calls[1] = "sign_file"
        /\ "encrypt_file" \in {last.calls[i] : i \in 1..Len(last.calls)} =>
              /\ fs["doc"].exists
              /\ FirstIndex(last.calls, "sig_sign") < FirstIndex(last.calls, "encrypt_file")
        /\ ~fs["doc.encrypted"].exists \/ last.exc = "none"
        /\ ( /\ fs["doc"].exists
             /\ last.key2.variant = last.h.dilithium_variant )
           => /\ last.exc = "none"
              /\ signature.has
              /\ signature.sig.msg = sha3_384(fs["doc"].content)

\* C9: file round trip through the facade.  encrypt_file of an existing file
\* under a public key of the handle's variant returns an envelope, and
\* decrypt_file of it with the matching private key returns (in memory) or
\* writes (file-backed) the original content, in both output modes.
C9_FileRoundTrip ==
    /\ ( /\ last.op = "encrypt_file"
         /\ fs["doc"].exists
         /\ last.key.variant = last.h.variant )
       => /\ last.exc = "none"
          /\ envelope.has /\ envelope.by = "encrypt_file"
          /\ ~last.return_as_data => fs["doc.encrypted"].exists
    /\ MatchingFileCall("decrypt_file")
       => /\ last.exc = "none"
          /\ last.return_as_data => last.out = envelope.P

\* C11: shared-secret lifetime.  After an encrypt operation the shared secret
\* of its encapsulation is not among the keys of the returned result, and no
\* file holds it: it served to derive the symmetric key and is gone.
C11_SecretDiscarded ==
    ( /\ last.op \in {"encrypt_data", "encryptor.encrypt_data"}
      /\ last.exc = "none" )
    => /\ "shared_secret" \notin envelope.keys
       /\ fs = NoFiles

C13_ShortKeyRejected ==
    (last.op \in CipherOps /\ last.symkey.len < 32)
    => /\ last.exc = "ValueError"
       /\ last.calls = <<>>
       /\ last.out = <<>>
       /\ last.op = "cipher.encrypt" => ~envelope.has

C13_Witness ==
    /\ last.op = "cipher.encrypt"
    /\ last.h.cipher = "ChaCha20Poly1305Cipher"
    /\ last.symkey.len = 31
    /\ last.exc = "ValueError"
    /\ encaps = 0

CipherBlob == envelope.has /\ envelope.by = "cipher"

\* C15: AEAD blob layout.  encrypt returns 12 nonce bytes, then as many
\* ciphertext bytes as the plaintext has, then 16 tag bytes: len(P) + 28 in
\* all, never the length of P.  decrypt reads the nonce from the first 12
\* bytes and the rest as ciphertext and tag, and uses the first 32 bytes of
\* the key only: any key that starts with the same 32 bytes recovers P.
C15_BlobLayout ==
    CipherBlob =>
        LET blob == envelope.encrypted_data
            n == Len(envelope.P)
        IN /\ Len(blob) = n + 28
           /\ Len(blob) # n
           /\ \A i \in 1..Len(blob) :
                 blob[i].kind = IF i <= 12 THEN "nonce"
                                ELSE IF i <= 12 + n THEN "ct" ELSE "tag"
           /\ ( /\ last.op = "cipher.decrypt" /\ last.form = "ok"
                /\ last.symkey.id = envelope.symkey.id /\ last.symkey.len >= 32 )
              => last.exc = "none" /\ last.out = envelope.P
           /\ ( /\ last.op = "cipher.decrypt" /\ last.form = "truncated"
                /\ last.tamper \in 12..(Len(blob) - 1) /\ last.symkey.len >= 32 )
              => last.exc = "InvalidTag"

C15_Witness ==
    /\ CipherBlob
    /\ Len(envelope.P) = 1
    /\ last.op = "cipher.decrypt" /\ last.form = "ok"
    /\ last.h.cipher = "ChaCha20Poly1305Cipher"
    /\ envelope.symkey.len = 33 /\ last.symkey.len = 64
    /\ last.symkey.id = envelope.symkey.id
    /\ last.out = envelope.P

\* C16: cipher substitutability.  Both ciphers answer every class of input
\* alike: a key shorter than 32 bytes with the configuration error
\* (ValueError); the intact blob under the right key with the plaintext; a
\* changed byte, a wrong key or a truncated blob with the decryption-failure
\* error (InvalidTag), never with the configuration error.
C16_Substitutable ==
    (CipherBlob /\ last.op = "cipher.decrypt") =>
        IF last.symkey.len < 32
        THEN last.exc = "ValueError"
        ELSE IF last.form = "ok" /\ last.symkey.id = envelope.symkey.id
        THEN last.exc = "none" /\ last.out = envelope.P
        ELSE last.exc = "InvalidTag"


\* The last call stored a key pair: save_keys, or a generate_* that saves
StoredKeys == last.op \in {"save_keys", "generate_encryption_keys", "generate_signature_keys"}

\* C17: right after save_keys(pub, priv, dir, purpose), and right after
\* generate_encryption_keys / generate_signature_keys with the pair they
\* returned, load_keys(dir, purpose) returns exactly that pair, whatever was
\* saved under the purpose before
C17_KeyStoreRoundTrip ==
    StoredKeys =>
        /\ load_keys(last.key_type, fs) =
              [exc |-> "none", public_key |-> last.key, private_key |-> last.key2]
        /\ last.op = "generate_encryption_keys" =>
              /\ Matches(last.key, last.key2)
              /\ PQFE_load_encryption_keys(last.h, fs).public_key = last.key
              /\ PQFE_load_encryption_keys(last.h, fs).private_key = last.key2
        /\ last.op = "generate_signature_keys" =>
              /\ Matches(last.key, last.key2)
              /\ PQFE_load_signature_keys(last.h, fs).public_key = last.key
              /\ PQFE_load_signature_keys(last.h, fs).private_key = last.key2

\* A pair saved over an existing pair of the same purpose, and loaded back
C17_Witness ==
    /\ last.op = "save_keys"
    /\ last.had = 2
    /\ last.key_type = "signature"
    /\ load_keys("signature", fs).public_key = last.key
    /\ load_keys("signature", fs).private_key = last.key2
    /\ last.key # NoKey


\* The purpose that is not key_type
OtherPurpose(key_type) == IF key_type = "signature" THEN "encryption" ELSE "signature"

\* C18: a save_keys, a delete_keys or a generate_*_keys for one purpose
\* (encryption or signature) leaves both files of the other purpose as they
\* were, in existence and content, and so leaves what load_keys returns for
\* the other purpose as it was
C18_PurposePartition ==
    [][(/\ last'.op \in {"save_keys", "delete_keys", "generate_encryption_keys",
                         "generate_signature_keys"}
        /\ last'.key_type \in KeyTypes)
       => LET other == OtherPurpose(last'.key_type)
          IN /\ fs'[KeyPaths(other).pub] = fs[KeyPaths(other).pub]
             /\ fs'[KeyPaths(other).priv] = fs[KeyPaths(other).priv]
             /\ load_keys(other, fs') = load_keys(other, fs)
             /\ last'.op = "generate_encryption_keys" =>
                   PQFE_load_signature_keys(KeyHandle, fs')
                      = PQFE_load_signature_keys(KeyHandle, fs)
             /\ last'.op = "generate_signature_keys" =>
                   PQFE_load_encryption_keys(KeyHandle, fs')
                      = PQFE_load_encryption_keys(KeyHandle, fs)]_vars

\* Encryption keys were generated over an existing encryption pair while a
\* signature pair is stored, and the signature pair still loads
C18_Witness ==
    /\ last.op = "generate_encryption_keys"
    /\ last.had = 2
    /\ PQFE_load_signature_keys(KeyHandle, fs).public_key # NoKey
    /\ PQFE_load_signature_keys(KeyHandle, fs).private_key # NoKey
    /\ PQFE_load_signature_keys(KeyHandle, fs).public_key # last.key


\* The last call was a load of keys, by the module function or the facade
LoadedKeys == last.op \in {"load_keys", "load_encryption_keys", "load_signature_keys"}

\* C19: load_keys never raises; it returns (None, None) whenever the public
\* key file, the private key file or the directory is missing, and the
\* contents of the two files when both exist; it never returns one key with
\* None for the other
C19_AbsentKeys ==
    LoadedKeys =>
        LET paths == KeyPaths(last.key_type)
            both == fs[paths.pub].exists /\ fs[paths.priv].exists
        IN /\ last.exc = "none"
           /\ ~fs[KeyDirectory].exists => ~both
           /\ ~both => (last.key = NoKey /\ last.key2 = NoKey)
           /\ both => /\ last.key = fs[paths.pub].content[1]
                      /\ last.key2 = fs[paths.priv].content[1]
                      /\ last.key # NoKey
                      /\ last.key2 # NoKey
           /\ (last.key = NoKey) <=> (last.key2 = NoKey)

\* A load with the public key file present and the private key file missing
C19_Witness ==
    /\ last.op = "load_keys"
    /\ fs[KeyPaths(last.key_type).pub].exists
    /\ ~fs[KeyPaths(last.key_type).priv].exists
    /\ last.exc = "none"
    /\ last.key = NoKey
    /\ last.key2 = NoKey


\* C20: delete_keys returns True exactly when at least one of the two files
\* of the purpose existed; after it neither file exists, load_keys returns
\* (None, None) and a second delete_keys returns False
C20_DeleteKeys ==
    last.op = "delete_keys" =>
        /\ last.flag <=> (last.had >= 1)
        /\ ~fs[KeyPaths(last.key_type).pub].exists
        /\ ~fs[KeyPaths(last.key_type).priv].exists
        /\ load_keys(last.key_type, fs) = NoKeyPair
        /\ ~delete_keys(last.key_type, fs).deleted
        /\ delete_keys(last.key_type, fs).files = fs

\* A delete that found only one of the two signature files and removed it,
\* with the encryption files left in place
C20_Witness ==
    /\ last.op = "delete_keys"
    /\ last.had = 1
    /\ last.flag
    /\ last.key_type = "signature"
    /\ fs[KeyPaths("encryption").pub].exists
    /\ ~fs[KeyPaths("signature").pub].exists
    /\ ~fs[KeyPaths("signature").priv].exists


\* C21: after save_keys (and the generate_*_keys that call it) the key
\* directory exists and both files of the purpose hold the whole key they
\* were given, whether os.chmod worked or raised; when it worked the private
\* key file is owner-only read/write
C21_BestEffortPermissions ==
    StoredKeys =>
        LET paths == KeyPaths(last.key_type)
        IN /\ last.exc = "none"
           /\ fs[KeyDirectory].exists
           /\ fs[paths.pub].exists
           /\ fs[paths.pub].content = <<last.key>>
           /\ fs[paths.priv].exists
           /\ fs[paths.priv].content = <<last.key2>>
           /\ last.form = "ok" => fs[paths.priv].mode = OwnerOnly

\* A first save into an absent directory whose os.chmod raised: both keys are
\* on disk, the private key file with the mode open() gave it
C21_Witness ==
    /\ last.op = "save_keys"
    /\ last.form = "raises"
    /\ last.had = 0
    /\ fs[KeyDirectory].exists
    /\ fs[KeyPaths(last.key_type).pub].content = <<last.key>>
    /\ fs[KeyPaths(last.key_type).priv].content = <<last.key2>>
    /\ fs[KeyPaths(last.key_type).priv].mode # OwnerOnly


\* C28: whenever a private key file holds key bytes, during a save_keys or
\* after it, its permissions are owner-only read/write, on a system where
\* os.chmod works
C28_NoUnprotectedWindow ==
    ~procs.chmod_raised =>
        \A t \in KeyTypes :
            LET file == fs[KeyPaths(t).priv]
            IN (file.exists /\ file.content # <<>>) => file.mode = OwnerOnly

\* C29: with save_keys calls overlapping each other or a load_keys, a
\* load_keys that returns keys returns one of the (public, private) pairs
\* that were passed to save_keys
C29_PairsStayMatched ==
    (last.op = "load_keys" /\ (last.key # NoKey \/ last.key2 # NoKey)) =>
        <<last.key, last.key2>> \in procs.passed


\* last constructed a role-scoped handle from a key that is no byte string
\* or has fewer than ten bytes
BadKeyConstruction ==
    /\ last.op \in FacadeClasses
    /\ (~IsBytes(last.key) \/ ShorterThan10(last.key))

\* C22: PQFEEncryptor, PQFESigner and PQFEVerifier refuse a key that is no
\* byte string, is empty or has fewer than ten bytes with ValueError, before
\* the cipher factory or a DilithiumSignature is asked for and without a
\* handle coming into being; a handle that exists holds a byte string of at
\* least ten bytes
C22_EagerKeyValidation ==
    /\ BadKeyConstruction =>
          (last.exc = "ValueError" /\ last.calls = <<>> /\ held = NoHeld)
    /\ held.class # "none" => (IsBytes(held.key) /\ ~ShorterThan10(held.key))

\* A verifier refused for a short key although its variant is unsupported
\* too: the key is looked at first
C22_Witness ==
    /\ last.op = "PQFEVerifier"
    /\ last.key.form = "short"
    /\ last.h.dilithium_variant \notin DILITHIUM_SUPPORTED_VARIANTS
    /\ last.exc = "ValueError"
    /\ last.calls = <<>>
    /\ held = NoHeld


\* Names the library does not support
UnsupportedKem(variant) == variant \notin KYBER_SUPPORTED_VARIANTS
UnsupportedSig(variant) == variant \notin DILITHIUM_SUPPORTED_VARIANTS
UnsupportedCipher(cipher) == cipher \notin {"AES256GCM", "ChaCha20Poly1305"}

\* PQFE, KyberEncryption and DilithiumSignature refuse unsupported names
C23_CoreHandles ==
    /\ \A v \in FacadeKemVariants, d \in FacadeSigVariants, c \in FacadeCiphers :
          (UnsupportedKem(v) \/ UnsupportedSig(d) \/ UnsupportedCipher(c))
             => PQFE_init(v, d, c).exc = "ValueError"
    /\ \A v \in FacadeKemVariants, c \in FacadeCiphers :
          (UnsupportedKem(v) \/ UnsupportedCipher(c))
             => KyberEncryption_init(v, c).exc = "ValueError"
    /\ \A d \in FacadeSigVariants :
          UnsupportedSig(d) => DilithiumSignature_init(d).exc = "ValueError"

\* PQFESigner and PQFEVerifier refuse an unsupported variant and never call
\* the provider under one
C23_SignHandles ==
    /\ (/\ last.op \in {"PQFESigner", "PQFEVerifier"}
        /\ ~BadKeyConstruction
        /\ UnsupportedSig(last.h.dilithium_variant))
       => (last.exc = "ValueError" /\ held = NoHeld)
    /\ (held.class \in {"PQFESigner", "PQFEVerifier"} /\ UnsupportedSig(held.variant))
       => (last.op \in MethodNames => last.calls = <<>>)

\* PQFEEncryptor refuses an unsupported variant or cipher and never calls a
\* provider under one
C23_EncryptHandles ==
    /\ (/\ last.op = "PQFEEncryptor"
        /\ ~BadKeyConstruction
        /\ (UnsupportedKem(last.h.variant) \/ UnsupportedCipher(last.h.cipher_name)))
       => (last.exc = "ValueError" /\ held = NoHeld)
    /\ (held.class = "PQFEEncryptor" /\ UnsupportedKem(held.variant))
       => (last.op \in MethodNames => last.calls = <<>>)

\* C23: an unsupported KEM variant, signature variant or cipher name is
\* refused with ValueError when the handle is constructed, for PQFE,
\* KyberEncryption, DilithiumSignature, PQFEEncryptor, PQFESigner and
\* PQFEVerifier, so that no handle with an unsupported name ever calls a
\* provider
C23_ConfigurationErrorsFirst ==
    C23_CoreHandles /\ C23_SignHandles /\ C23_EncryptHandles


\* The calls of last that decrypt, decapsulate or sign
PrivateKeyCalls ==
    {i \in 1..Len(last.calls) : last.calls[i] \in {"decap_secret", "aead_decrypt", "sig_sign"}}

\* C26: a PQFEEncryptor has the methods encrypt_data and encrypt_file only, a
\* PQFESigner sign_data and sign_file only, a PQFEVerifier verify_data and
\* verify_file only; whatever is called on an encryptor or a verifier, it
\* holds the key it was given, a variant and (encryptor) a cipher, it never
\* decapsulates, decrypts or signs, and it returns neither a plaintext nor a
\* signature nor a key
C26_LeastPrivilege ==
    (last.op \in MethodNames /\ held.class # "none") =>
        /\ held.class = "PQFEEncryptor" /\ last.op \notin {"encrypt_data", "encrypt_file"}
              => (last.exc = "AttributeError" /\ last.calls = <<>>)
        /\ held.class = "PQFESigner" /\ last.op \notin {"sign_data", "sign_file"}
              => (last.exc = "AttributeError" /\ last.calls = <<>>)
        /\ held.class = "PQFEVerifier" /\ last.op \notin {"verify_data", "verify_file"}
              => (last.exc = "AttributeError" /\ last.calls = <<>>)
        /\ held.class \in {"PQFEEncryptor", "PQFEVerifier"}
              => (PrivateKeyCalls = {} /\ last.form \in {"none", "envelope", "bool"})
        /\ held.class = "PQFESigner" => last.form \in {"none", "signature"}
        /\ held.class # "PQFEEncryptor" => held.cipher = "none"

\* decrypt_data tried on an encryptor that has encrypted: no such method
C26_Witness ==
    /\ held.class = "PQFEEncryptor"
    /\ held.key = PublicKey("Kyber512", 1)
    /\ last.op = "decrypt_data"
    /\ last.exc = "AttributeError"
    /\ encaps > 0


\* last is a decrypt or sign operation of PQFE that was given None where it
\* needs a private key
CalledWithoutPrivateKey ==
    \/ /\ last.op \in {"decrypt_file", "decrypt_data", "decrypt_and_verify",
                       "sign_data", "sign_file"}
       /\ last.key = NoKey
    \/ /\ last.op = "encrypt_and_sign"
       /\ last.key2 = NoKey

\* PQFE.decrypt_file and PQFE.decrypt_and_verify refuse None at once
C24_FileDecrypts ==
    (CalledWithoutPrivateKey /\ last.op \in {"decrypt_file", "decrypt_and_verify"})
       => (last.exc = "ValueError" /\ Count(last.calls, "open") = 0
           /\ Count(last.calls, "decap_secret") = 0)

\* C24: decrypt_file, decrypt_data, decrypt_and_verify, sign_data, sign_file
\* and encrypt_and_sign of PQFE, called with None for the private key they
\* need, raise the missing-key error at once: no file is read and no KEM,
\* AEAD or signature provider is called
C24_MissingPrivateKey ==
    CalledWithoutPrivateKey =>
        /\ last.exc = "ValueError"
        /\ \A i \in 1..Len(last.calls) :
              last.calls[i] \notin {"open", "sha3_384", "sig_sign", "decap_secret",
                                    "aead_decrypt", "AESGCM", "ChaCha20Poly1305"}


\* The envelope file was written and then read back
ReadBack == encfile.written /\ encfile.read.done

\* What was read is what was written
SameEnvelope ==
    /\ encfile.read.exc = "none"
    /\ encfile.read.encrypted_content = encfile.encrypted_content
    /\ encfile.read.ciphertext = encfile.ciphertext
    /\ encfile.read.metadata = encfile.metadata

\* An envelope file whose content has no newline byte reads back as written
C25_NoNewlineRoundTrip ==
    (ReadBack /\ FirstNewline(encfile.encrypted_content) = 0) => SameEnvelope

\* C25: whatever the encrypted content (a newline byte in it included), the
\* KEM ciphertext and the metadata, write_encrypted_file writes the content,
\* a newline and the record with the hex-encoded ciphertext to the path it
\* returns, and read_encrypted_file of that path returns the content, the
\* ciphertext and the metadata that were written
C25_EnvelopeFileRoundTrip ==
    /\ encfile.written =>
          /\ encfile.path = <<"doc", ".enc">>
          /\ encfile.bytes = encfile.encrypted_content \o <<Newline>>
                                \o json_dumps(hex(encfile.ciphertext), encfile.metadata)
    /\ ReadBack => SameEnvelope

\* C27: decrypt_and_verify raises "Decryption failed" only when decryption
\* produced no payload.  Whenever decryption succeeds (the envelope of the
\* file's content, its maker's handle and the recipient's private key), a
\* zero-length plaintext included, the call returns the payload together with
\* the verified flag and does not raise.
C27_PayloadWheneverDecrypted ==
    MatchingFileCall("decrypt_and_verify") =>
        /\ last.exc = "none"
        /\ last.calls # <<"decrypt_file">>
        /\ last.return_as_data => last.out = envelope.P


====
